---- MODULE Spec2Model ----
(***************************************************************************)
(* Model of the ember feed aggregator: the articles API (in-memory cache,  *)
(* persisted snapshot, live-fetch fallback, filtering and pagination), the *)
(* feed generator and the manual refresh endpoint.                         *)
(*                                                                         *)
(* Encodings.  JavaScript numbers that reach the pagination arithmetic are *)
(* held as integer counts of halves (1 is 2, 1.5 is 3, 12 is 24), so that  *)
(* fractional query values keep their meaning; products of two such        *)
(* numbers are counts of quarters.  A Date is held as an integer count of  *)
(* hours on a calendar with 31-day month slots, which preserves the order  *)
(* of instants, the only thing the code uses dates for.  An optional       *)
(* object property is a record field that may be missing from the record.  *)
(***************************************************************************)
EXTENDS Integers, Sequences, FiniteSets, TLC

VARIABLES
    config,          \* the parsed content of config.yaml
    now,             \* Date.now()
    cachedArticles,  \* module variable of articles.ts: null or an array
    cacheTime,       \* module variable of articles.ts
    feedFile,        \* public/data/feed.json
    usersFile,       \* public/data/users.json
    calls,           \* articles requests suspended in the live fetch
    resp,            \* the latest response of the articles endpoint
    lastOp,          \* the latest step, if it was a step of getAllArticles
    gen,             \* the running generateFeedJson, if any
    genResult,       \* what the latest generateFeedJson returned
    refreshKey,      \* process.env.REFRESH_API_KEY
    refreshResp,     \* the latest response of the refresh endpoint
    cachedUsers,     \* module variable of the users API: null or an array
    usersCacheTime,  \* module variable cacheTime of the users API
    usersResp,       \* the latest response of the users endpoint
    initialUsers,    \* the props the index page was built with
    timeline         \* the state of a timeline page open in a browser

usersVars == <<cachedUsers, usersCacheTime, usersResp, initialUsers>>
vars == <<config, now, cachedArticles, cacheTime, feedFile, usersFile, calls,
          resp, lastOp, gen, genResult, refreshKey, refreshResp, cachedUsers,
          usersCacheTime, usersResp, initialUsers, timeline>>

Max(a, b) == IF a >= b THEN a ELSE b
Min(a, b) == IF a <= b THEN a ELSE b

\* JavaScript undefined (a query parameter or property that is not there).
Absent == "<undefined>"
\* JavaScript null (left_at: null in config.yaml).
NullValue == [null |-> TRUE]
\* JavaScript truthiness of a string-or-undefined value.
Truthy(s) == s # Absent /\ s # ""
Has(r, f) == f \in DOMAIN r

(***************************************************************************)
(* Dates                                                                   *)
(***************************************************************************)
\* new Date(year, monthIndex, day): local midnight; years 0..99 mean 1900+.
MkDate(year, monthIndex, day) ==
    ((((IF year \in 0..99 THEN 1900 + year ELSE year) * 12) + monthIndex) * 31
        + (day - 1)) * 24
\* new Date(item.pubDate) for a well-formed date string <<y, m, d, h>>.
ParseDate(p) == (((p[1] * 12) + (p[2] - 1)) * 31 + (p[3] - 1)) * 24 + p[4]
\* An item without pubDate (undefined or the empty string).
NoDate == <<>>

(***************************************************************************)
(* config.yaml                                                             *)
(***************************************************************************)
Alice == [name |-> "alice", avatar |-> "/avatars/alice.png",
          joined_at |-> [year |-> 2020, month |-> 1],
          left_at |-> [year |-> 2021, month |-> 6],
          tags |-> <<"rust", "go">>, sources |-> <<"a1", "a2">>]
Bob == [name |-> "bob", avatar |-> "/avatars/bob.png",
        joined_at |-> [year |-> 2019, month |-> 4],
        left_at |-> NullValue,
        tags |-> <<"go">>, sources |-> <<"b1">>]
\* The same users under the key the live-fetch fallback reads (user.joined).
AliceJoined == [name |-> "alice", avatar |-> "/avatars/alice.png",
                joined |-> [year |-> 2020, month |-> 1],
                left_at |-> [year |-> 2021, month |-> 6],
                tags |-> <<"rust", "go">>, sources |-> <<"a1", "a2">>]
BobJoined == [name |-> "bob", avatar |-> "/avatars/bob.png",
              joined |-> [year |-> 2019, month |-> 4],
              left_at |-> NullValue,
              tags |-> <<"go">>, sources |-> <<"b1">>]
ConfigJoinedAt == [users |-> <<Alice, Bob>>]
ConfigJoined == [users |-> <<AliceJoined, BobJoined>>]
Configs == {ConfigJoinedAt, ConfigJoined}

(***************************************************************************)
(* The feeds behind the source URLs                                        *)
(***************************************************************************)
Web ==
    [a1 |-> [title |-> "Alice Blog",
             items |-> << [link |-> "a1/1", pubDate |-> <<2021, 5, 1, 0>>],
                          [link |-> "a1/2", pubDate |-> NoDate],
                          [link |-> "a1/3", pubDate |-> <<2021, 7, 1, 0>>] >>],
     a2 |-> [items |-> << [link |-> "a2/1", pubDate |-> <<2021, 6, 15, 9>>],
                          [link |-> "a2/2", pubDate |-> <<2019, 12, 31, 23>>],
                          [link |-> "a2/3", pubDate |-> <<2021, 5, 1, 0>>] >>],
     b1 |-> [title |-> "Bob Notes",
             items |-> << [link |-> "b1/1", pubDate |-> <<2021, 5, 1, 0>>],
                          [link |-> "b1/2"],
                          [link |-> "b1/3", pubDate |-> <<2018, 1, 1, 0>>],
                          [link |-> "b1/4", pubDate |-> <<2018, 1, 1, 0>>],
                          [link |-> "b1/5", pubDate |-> <<2021, 5, 20, 8>>] >>]]

(***************************************************************************)
(* Article normalizer and sort of the generator                            *)
(***************************************************************************)
JoinDate(user) ==
    IF Has(user, "joined_at")
    THEN MkDate(user.joined_at.year, user.joined_at.month - 1, 1)
    ELSE MkDate(0, 0, 1)
\* Mutant: the month of left_at is taken as a 0-based month index.
LeftDate_monthIndex(user) ==
    IF Has(user, "left_at") /\ user.left_at # NullValue
    THEN MkDate(user.left_at.year, user.left_at.month, 1)
    ELSE MkDate(9999, 11, 31)
LeftDate(user) ==
    IF Has(user, "left_at") /\ user.left_at # NullValue
    THEN MkDate(user.left_at.year, user.left_at.month - 1, 1)
    ELSE MkDate(9999, 11, 31)

SiteName(parsedFeed) ==
    IF Has(parsedFeed, "title") /\ parsedFeed.title # ""
    THEN parsedFeed.title ELSE "Unknown Source"

\* One item of a fetched feed as the generator emits it.
NormalizeItem(user, parsedFeed, item) ==
    [f \in DOMAIN item |-> item[f]] @@
    [isDuringEmployment |-> (ParseDate(item.pubDate) >= JoinDate(user)
                             /\ ParseDate(item.pubDate) <= LeftDate(user)),
     tags |-> user.tags, siteName |-> SiteName(parsedFeed),
     author |-> user.name] @@
    (IF Has(user, "avatar") THEN [authorAvatar |-> user.avatar] ELSE <<>>)

HasPubDate(item) == Has(item, "pubDate") /\ item.pubDate # NoDate

\* Mutant: items published outside the tenure window are filtered out
\* instead of being flagged.
NormalizeFeed_tenureOnly(user, parsedFeed) ==
    IF Has(parsedFeed, "items")
    THEN LET keeps(item) ==
                 /\ HasPubDate(item)
                 /\ ParseDate(item.pubDate) >= JoinDate(user)
                 /\ ParseDate(item.pubDate) <= LeftDate(user)
             dated == SelectSeq(parsedFeed.items, keeps)
         IN  [i \in 1..Len(dated) |-> NormalizeItem(user, parsedFeed, dated[i])]
    ELSE <<>>
\* The articles one successfully fetched feed contributes in the generator.
NormalizeFeed(user, parsedFeed) ==
    IF Has(parsedFeed, "items")
    THEN LET dated == SelectSeq(parsedFeed.items, HasPubDate)
         IN  [i \in 1..Len(dated) |-> NormalizeItem(user, parsedFeed, dated[i])]
    ELSE <<>>

PubTime(article) == ParseDate(article.pubDate)

\* Insert x behind every element that does not sort after it.
RECURSIVE InsertDesc(_, _)
\* Mutant: the comparator is never consulted and the array keeps its order.
InsertDesc_append(sorted, x) == Append(sorted, x)
InsertDesc(sorted, x) ==
    IF sorted = <<>> THEN <<x>>
    ELSE IF PubTime(x) > PubTime(Head(sorted))
         THEN <<x>> \o sorted
         ELSE <<Head(sorted)>> \o InsertDesc(Tail(sorted), x)

\* allArticles.sort((a, b) => time(b) - time(a)); Array.prototype.sort is stable.
RECURSIVE SortFrom(_, _)
SortFrom(sorted, rest) ==
    IF rest = <<>> THEN sorted
    ELSE SortFrom(InsertDesc(sorted, Head(rest)), Tail(rest))
\* Mutant: the array is walked from its end, so that articles of the same
\* instant come out in reverse order.
SortByDateDesc_reversed(articles) ==
    SortFrom(<<>>, [i \in 1..Len(articles) |-> articles[Len(articles) + 1 - i]])
SortByDateDesc(articles) == SortFrom(<<>>, articles)

IsSortedDesc(articles) ==
    \A i \in 1..(Len(articles) - 1) : PubTime(articles[i]) >= PubTime(articles[i + 1])

(***************************************************************************)
(* Articles handler: query parsing, filters, pagination                    *)
(***************************************************************************)
\* Number(s) for the query strings the model sends, in halves.
NumeralHalves ==
    ("" :> 0) @@ ("0" :> 0) @@ ("1" :> 2) @@ ("2" :> 4) @@ ("3" :> 6)
    @@ ("4" :> 8) @@ ("12" :> 24) @@ ("99" :> 198) @@ ("-1" :> -2)
    @@ ("-3" :> -6) @@ ("0.5" :> 1) @@ ("1.5" :> 3) @@ ("2.5" :> 5)
ToNumber(raw) ==
    IF raw \in DOMAIN NumeralHalves
    THEN [nan |-> FALSE, halves |-> NumeralHalves[raw]]
    ELSE [nan |-> TRUE]
\* Mutant: both parameters fall back to 1 (the default of page copied to
\* perPage).
NumberOr_defaultOne(raw, dflt) ==
    LET n == ToNumber(raw)
    IN  IF n.nan \/ n.halves = 0 THEN 2 * 1 ELSE n.halves
\* Number(raw) || dflt: NaN and 0 are falsy.
NumberOr(raw, dflt) ==
    LET n == ToNumber(raw)
    IN  IF n.nan \/ n.halves = 0 THEN 2 * dflt ELSE n.halves

ParseQuery(query) ==
    [page |-> NumberOr(query.page, 1),
     perPage |-> NumberOr(query.perPage, 12),
     authorFilter |-> query.author,
     tagFilter |-> query.tag,
     duringEmploymentOnly |-> (query.duringEmploymentOnly = "true")]

\* Mutant: only the first tag of an article is compared.
Includes_firstOnly(tags, t) == Len(tags) > 0 /\ tags[1] = t
Includes(tags, t) == \E i \in 1..Len(tags) : tags[i] = t

\* Mutant: the employment filter is applied without looking at the author.
FilterArticles_flagAlways(articles, p) ==
    LET byAuthor(a) == a.author = p.authorFilter
        flagged(a) == Has(a, "isDuringEmployment") /\ a.isDuringEmployment = TRUE
        byTag(a) == Includes(a.tags, p.tagFilter)
        s1 == IF Truthy(p.authorFilter) THEN SelectSeq(articles, byAuthor) ELSE articles
        s2 == IF p.duringEmploymentOnly THEN SelectSeq(s1, flagged) ELSE s1
    IN  IF Truthy(p.tagFilter) THEN SelectSeq(s2, byTag) ELSE s2
FilterArticles(articles, p) ==
    LET byAuthor(a) == a.author = p.authorFilter
        flagged(a) == Has(a, "isDuringEmployment") /\ a.isDuringEmployment = TRUE
        byTag(a) == Includes(a.tags, p.tagFilter)
        s1 == IF Truthy(p.authorFilter) THEN SelectSeq(articles, byAuthor) ELSE articles
        s2 == IF Truthy(p.authorFilter) /\ p.duringEmploymentOnly
              THEN SelectSeq(s1, flagged) ELSE s1
    IN  IF Truthy(p.tagFilter) THEN SelectSeq(s2, byTag) ELSE s2

\* Math.ceil(total / perPage) with perPage in halves, perPage # 0.
CeilDiv(total, perPageHalves) ==
    IF perPageHalves > 0
    THEN ((2 * total) + perPageHalves - 1) \div perPageHalves
    ELSE 0 - ((2 * total) \div (0 - perPageHalves))

\* ToIntegerOrInfinity of a count of quarters: truncation toward zero.
TruncQuarters(q) == IF q >= 0 THEN q \div 4 ELSE 0 - ((0 - q) \div 4)
\* A relative index of Array.prototype.slice, clamped into 0..len.
SliceIndex(k, len) == IF k < 0 THEN Max(len + k, 0) ELSE Min(k, len)
\* articles.slice(start, end) with start and end in quarters.
Slice(articles, startQuarters, endQuarters) ==
    LET from == SliceIndex(TruncQuarters(startQuarters), Len(articles))
        to == SliceIndex(TruncQuarters(endQuarters), Len(articles))
    IN  [i \in 1..Max(to - from, 0) |-> articles[from + i]]

\* Mutant: a partly filled last page is not counted.
TotalPages_floor(total, perPage) == Max(1, (2 * total) \div perPage)
TotalPages(total, perPage) == Max(1, CeilDiv(total, perPage))
SafePageNumber(page, totalPages) == Min(Max(2, page), 2 * totalPages)
StartIndex(safePageNumber, perPage) == (safePageNumber - 2) * perPage
\* Mutant: the slice runs one article too far.
EndIndex_inclusive(startIndex, perPage) == startIndex + (2 * perPage) + 4
EndIndex(startIndex, perPage) == startIndex + (2 * perPage)

\* The body of the 200 response for the parsed parameters p.
Paginate(articles, p) ==
    LET total == Len(articles)
        totalPages == TotalPages(total, p.perPage)
        safePageNumber == SafePageNumber(p.page, totalPages)
        startIndex == StartIndex(safePageNumber, p.perPage)
        endIndex == EndIndex(startIndex, p.perPage)
    IN  [articles |-> Slice(articles, startIndex, endIndex),
         pagination |-> [total |-> total, page |-> safePageNumber,
                         perPage |-> p.perPage, totalPages |-> totalPages]]

\* article.tags.includes(tagFilter) throws a TypeError on an article without
\* a tags array that has come through the author filters.
FilterThrows(articles, p) ==
    LET byAuthor(a) == a.author = p.authorFilter
        flagged(a) == Has(a, "isDuringEmployment") /\ a.isDuringEmployment = TRUE
        s1 == IF Truthy(p.authorFilter) THEN SelectSeq(articles, byAuthor) ELSE articles
        s2 == IF Truthy(p.authorFilter) /\ p.duringEmploymentOnly
              THEN SelectSeq(s1, flagged) ELSE s1
    IN  Truthy(p.tagFilter) /\ \E i \in 1..Len(s2) : ~Has(s2[i], "tags")

\* What the handler answers once getAllArticles has returned `all`: the page
\* of the filtered collection, or the generic error when a filter throws.
HandlerResponse(all, query) ==
    LET p == ParseQuery(query)
    IN  IF FilterThrows(all, p)
        THEN [status |-> 500, query |-> query, all |-> all,
              body |-> [error |-> "Failed to load articles"]]
        ELSE [status |-> 200, query |-> query, all |-> all,
              body |-> Paginate(FilterArticles(all, p), p)]

(***************************************************************************)
(* getAllArticles: in-memory cache, persisted snapshot, live-fetch fallback *)
(***************************************************************************)
CACHE_DURATION == 10 * 60 * 1000

\* The instants at which the model reads the clock.
Instants == {0, CACHE_DURATION - 1, CACHE_DURATION}

NullCache == [isNull |-> TRUE]
ArrayCache(articles) == [isNull |-> FALSE, items |-> articles]

\* Mutant: the entry expires one millisecond early.
CacheFresh_early(cached, time, t) ==
    ~cached.isNull /\ (t - time < CACHE_DURATION - 1)
\* cachedArticles && (now - cacheTime < CACHE_DURATION)
CacheFresh(cached, time, t) == ~cached.isNull /\ (t - time < CACHE_DURATION)

NoFile == [kind |-> "missing"]
CorruptFile == [kind |-> "corrupt"]
JsonFile(data) == [kind |-> "json", data |-> data]

\* JSON.stringify leaves out the properties whose value is undefined, which
\* the records of the model do not have in the first place; strings and
\* booleans are written and read back as they are.
ToJson(articles) == [i \in 1..Len(articles) |-> [f \in DOMAIN articles[i] |-> articles[i][f]]]

\* Mutant: an empty articles array is accepted.
SnapshotValid_allowEmpty(file) ==
    /\ file.kind = "json"
    /\ Has(file.data, "articles")
\* existsSync, then JSON.parse without an exception, then a non-empty
\* articles array.
SnapshotValid(file) ==
    /\ file.kind = "json"
    /\ Has(file.data, "articles")
    /\ Len(file.data.articles) > 0

\* The fallback keeps only the dated items inside the tenure window, which
\* it computes from user.joined and user.left_at.
FallbackJoinDate(user) == MkDate(user.joined.year, user.joined.month - 1, 1)
FallbackKeeps(user, item) ==
    /\ HasPubDate(item)
    /\ ParseDate(item.pubDate) >= FallbackJoinDate(user)
    /\ ParseDate(item.pubDate) <= LeftDate(user)
FallbackItem(user, parsedFeed, item) ==
    [f \in DOMAIN item |-> item[f]] @@
    [tags |-> user.tags, siteName |-> SiteName(parsedFeed),
     author |-> user.name] @@
    (IF Has(user, "avatar") THEN [authorAvatar |-> user.avatar] ELSE <<>>)
FallbackFeed(user, parsedFeed) ==
    IF Has(parsedFeed, "items")
    THEN LET keeps(item) == FallbackKeeps(user, item)
             kept == SelectSeq(parsedFeed.items, keeps)
         IN  [i \in 1..Len(kept) |-> FallbackItem(user, parsedFeed, kept[i])]
    ELSE <<>>

\* The loop over users and sources, resumed at source si of user ui: the
\* next parseURL to await, a TypeError on a user without `joined`, or the
\* end of the loop.
RECURSIVE NextSource(_, _, _)
NextSource(cfg, ui, si) ==
    IF ui > Len(cfg.users) THEN [kind |-> "done"]
    ELSE IF si = 1 /\ ~Has(cfg.users[ui], "joined") THEN [kind |-> "throw"]
    ELSE IF si > Len(cfg.users[ui].sources) THEN NextSource(cfg, ui + 1, 1)
    ELSE IF cfg.users[ui].sources[si] = "" THEN NextSource(cfg, ui, si + 1)
    ELSE [kind |-> "await", ui |-> ui, si |-> si]

NumCalls == 1
Calls == 1..NumCalls
IdleCall == [pc |-> "idle"]

DefaultQuery == [page |-> Absent, perPage |-> Absent, author |-> Absent,
                 tag |-> Absent, duringEmploymentOnly |-> Absent]
\* The request sent while the cache, the snapshot and the clock change; the
\* other queries are tried on a fixed aggregate (PageSpec).
SysQueries == {DefaultQuery}

\* A step of getAllArticles: the call, the path taken, the I/O done, and
\* whether the step is the entry of the call.
Op(call, path, io, entry) ==
    [call |-> call, path |-> path, io |-> io, entry |-> entry]
\* The latest step was no step of getAllArticles.
NoOp == [call |-> 0, path |-> "none", io |-> {}, entry |-> FALSE]

\* The response together with the way getAllArticles produced the collection
\* and, for a live fetch, which parseURL calls succeeded.
Answer(all, query, via, outcomes) ==
    HandlerResponse(all, query) @@ [via |-> via, outcomes |-> outcomes]

GenUnchanged ==
    UNCHANGED <<gen, genResult, refreshKey, refreshResp, usersFile, usersVars,
                timeline>>

\* Mutant: a valid snapshot on disk takes precedence over the fresh entry.
ServeFromCache_snapshotFirst(c, query) ==
    /\ calls[c].pc = "idle"
    /\ CacheFresh(cachedArticles, cacheTime, now)
    /\ LET all == IF SnapshotValid(feedFile) THEN feedFile.data.articles
                  ELSE cachedArticles.items
       IN  /\ cachedArticles' = ArrayCache(all)
           /\ resp' = Answer(all, query, "cache", <<>>)
    /\ lastOp' = Op(c, "cache", {}, TRUE)
    /\ UNCHANGED <<config, now, cacheTime, feedFile, calls>>
    /\ GenUnchanged
\* Lines 36-39: a fresh in-memory entry is returned as it is.
ServeFromCache(c, query) ==
    /\ calls[c].pc = "idle"
    /\ CacheFresh(cachedArticles, cacheTime, now)
    /\ resp' = Answer(cachedArticles.items, query, "cache", <<>>)
    /\ lastOp' = Op(c, "cache", {}, TRUE)
    /\ UNCHANGED <<config, now, cachedArticles, cacheTime, feedFile, calls>>
    /\ GenUnchanged

\* Lines 43-53: the persisted snapshot is adopted.
ServeFromSnapshot(c, query) ==
    /\ calls[c].pc = "idle"
    /\ ~CacheFresh(cachedArticles, cacheTime, now)
    /\ SnapshotValid(feedFile)
    /\ cachedArticles' = ArrayCache(feedFile.data.articles)
    /\ cacheTime' = now
    /\ resp' = Answer(feedFile.data.articles, query, "snapshot", <<>>)
    /\ lastOp' = Op(c, "snapshot", {"existsSync", "readFile"}, TRUE)
    /\ UNCHANGED <<config, now, feedFile, calls>>
    /\ GenUnchanged

\* What the probe of feed.json does when the snapshot is not adopted.
ProbeIo(file) == IF file.kind = "missing" THEN {"existsSync"}
                 ELSE {"existsSync", "readFile"}

\* Mutant: the cache is updated only after a successful save, and a failed
\* save returns nothing.
FinishLive_saveFirst(c, query, capturedNow, allArticles, outcomes, writeOk, io, entry) ==
    LET sorted == SortByDateDesc(allArticles)
    IN  /\ cachedArticles' = IF writeOk THEN ArrayCache(sorted) ELSE cachedArticles
        /\ cacheTime' = IF writeOk THEN capturedNow ELSE cacheTime
        /\ feedFile' = IF writeOk THEN JsonFile([articles |-> ToJson(sorted)])
                       ELSE feedFile
        /\ resp' = Answer(IF writeOk THEN sorted ELSE <<>>, query, "live", outcomes)
        /\ lastOp' = Op(c, "live", io \cup {IF writeOk THEN "writeFile" ELSE "writeFailed"}, entry)
        /\ calls' = [calls EXCEPT ![c] = IdleCall]
\* Lines 116-137: sort, update the cache, try to save, return.
FinishLive(c, query, capturedNow, allArticles, outcomes, writeOk, io, entry) ==
    LET sorted == SortByDateDesc(allArticles)
    IN  /\ cachedArticles' = ArrayCache(sorted)
        /\ cacheTime' = capturedNow
        /\ feedFile' = IF writeOk THEN JsonFile([articles |-> ToJson(sorted)])
                       ELSE feedFile
        /\ resp' = Answer(sorted, query, "live", outcomes)
        /\ lastOp' = Op(c, "live", io \cup {IF writeOk THEN "writeFile" ELSE "writeFailed"}, entry)
        /\ calls' = [calls EXCEPT ![c] = IdleCall]

\* Mutant: the exception leaves getAllArticles and reaches the catch of the
\* handler.
ThrowLive_rethrown(c, query, outcomes, io, entry) ==
    /\ resp' = [status |-> 500, query |-> query, all |-> <<>>,
                body |-> [error |-> "Failed to load articles"],
                via |-> "error", outcomes |-> outcomes]
    /\ lastOp' = Op(c, "error", io, entry)
    /\ calls' = [calls EXCEPT ![c] = IdleCall]
    /\ UNCHANGED <<cachedArticles, cacheTime, feedFile>>
\* Lines 138-141: any exception of the live fetch yields [].
ThrowLive(c, query, outcomes, io, entry) ==
    /\ resp' = Answer(<<>>, query, "error", outcomes)
    /\ lastOp' = Op(c, "error", io, entry)
    /\ calls' = [calls EXCEPT ![c] = IdleCall]
    /\ UNCHANGED <<cachedArticles, cacheTime, feedFile>>

\* The loop continues at source si of user ui with allArticles collected.
ContinueLive(c, query, capturedNow, allArticles, outcomes, ui, si, writeOk, io, entry) ==
    LET next == NextSource(config, ui, si)
    IN  CASE next.kind = "await" ->
               /\ calls' = [calls EXCEPT ![c] =
                     [pc |-> "parseURL", query |-> query, now |-> capturedNow,
                      ui |-> next.ui, si |-> next.si, allArticles |-> allArticles,
                      outcomes |-> outcomes]]
               /\ lastOp' = Op(c, "fetching", io \cup {"parseURL"}, entry)
               /\ UNCHANGED <<cachedArticles, cacheTime, feedFile, resp>>
          [] next.kind = "throw" -> ThrowLive(c, query, outcomes, io, entry)
          [] next.kind = "done" ->
               FinishLive(c, query, capturedNow, allArticles, outcomes, writeOk,
                          io, entry)

\* Mutant: an expired entry is refreshed from the network although a valid
\* snapshot is on disk.
LiveFetchStart_whenStale(c, query, configReadable, writeOk) ==
    /\ calls[c].pc = "idle"
    /\ ~CacheFresh(cachedArticles, cacheTime, now)
    /\ ~SnapshotValid(feedFile) \/ ~cachedArticles.isNull
    /\ IF configReadable
       THEN ContinueLive(c, query, now, <<>>, <<>>, 1, 1, writeOk,
                         ProbeIo(feedFile) \cup {"readConfig"}, TRUE)
       ELSE ThrowLive(c, query, <<>>, ProbeIo(feedFile) \cup {"readConfig"},
                      TRUE)
    /\ UNCHANGED <<config, now>>
    /\ GenUnchanged
\* Mutant: a call waits while another call is inside the live fetch.
LiveFetchStart_exclusive(c, query, configReadable, writeOk) ==
    /\ calls[c].pc = "idle"
    /\ \A d \in DOMAIN calls : calls[d].pc = "idle"
    /\ ~CacheFresh(cachedArticles, cacheTime, now)
    /\ ~SnapshotValid(feedFile)
    /\ IF configReadable
       THEN ContinueLive(c, query, now, <<>>, <<>>, 1, 1, writeOk,
                         ProbeIo(feedFile) \cup {"readConfig"}, TRUE)
       ELSE ThrowLive(c, query, <<>>, ProbeIo(feedFile) \cup {"readConfig"},
                      TRUE)
    /\ UNCHANGED <<config, now>>
    /\ GenUnchanged
\* Lines 41-90: no fresh entry and no valid snapshot: the live fetch starts
\* and runs up to its first parseURL.
LiveFetchStart(c, query, configReadable, writeOk) ==
    /\ calls[c].pc = "idle"
    /\ ~CacheFresh(cachedArticles, cacheTime, now)
    /\ ~SnapshotValid(feedFile)
    /\ IF configReadable
       THEN ContinueLive(c, query, now, <<>>, <<>>, 1, 1, writeOk,
                         ProbeIo(feedFile) \cup {"readConfig"}, TRUE)
       ELSE ThrowLive(c, query, <<>>, ProbeIo(feedFile) \cup {"readConfig"},
                      TRUE)
    /\ UNCHANGED <<config, now>>
    /\ GenUnchanged

\* Lines 90-113: the awaited parseURL settles; the loop runs on to the next
\* parseURL or to the end of getAllArticles.
LiveFetchSettle(c, fetchOk, writeOk) ==
    /\ calls[c].pc = "parseURL"
    /\ LET call == calls[c]
           user == config.users[call.ui]
           parsedFeed == Web[user.sources[call.si]]
           allArticles == IF fetchOk
                          THEN call.allArticles \o FallbackFeed(user, parsedFeed)
                          ELSE call.allArticles
           outcomes == Append(call.outcomes,
                              [url |-> user.sources[call.si], ok |-> fetchOk])
       IN  ContinueLive(c, call.query, call.now, allArticles, outcomes, call.ui,
                        call.si + 1, writeOk, {}, FALSE)
    /\ UNCHANGED <<config, now>>
    /\ GenUnchanged

\* Time passes.
Tick(t) ==
    /\ t \in Instants
    /\ t > now
    /\ now' = t
    /\ lastOp' = NoOp
    /\ UNCHANGED <<config, cachedArticles, cacheTime, feedFile, calls, resp>>
    /\ GenUnchanged

NoResponse == [status |-> 0]
IdleGen == [pc |-> "idle"]
NoResult == [success |-> FALSE, caller |-> "none"]
NoProps == [built |-> FALSE]
\* The users API has not been called and the index page has not been built.
\* No timeline page is open.
NoPage == [kind |-> "none"]
UsersApiIdle ==
    /\ cachedUsers = NullCache
    /\ usersCacheTime = 0
    /\ usersResp = NoResponse
    /\ initialUsers = NoProps

(***************************************************************************)
(* generateFeedJson                                                        *)
(***************************************************************************)
\* Mutant: one more retry is granted (the test reads retries >= 0).
Retries_four == 3 + 1
\* fetchFeedWithRetry(sourceUrl, retries = 3)
Retries == 3

CallUnchanged ==
    UNCHANGED <<now, cachedArticles, cacheTime, calls, resp, lastOp, usersVars,
                timeline>>

\* Mutant: the URLs already processed for earlier users are not skipped.
EligibleSources_noDedup(user, processedUrls) ==
    LET eligible(url) == url # ""
    IN  SelectSeq(user.sources, eligible)
\* user.sources.filter(sourceUrl => sourceUrl && !processedUrls.has(sourceUrl)):
\* the whole list is filtered before any URL is added to processedUrls.
EligibleSources(user, processedUrls) ==
    LET eligible(url) == url # "" /\ url \notin processedUrls
    IN  SelectSeq(user.sources, eligible)

\* The async callbacks of one user, each up to its first parseURL.
LaunchFetches(urls) ==
    [i \in 1..Len(urls) |->
        [url |-> urls[i], retries |-> Retries, state |-> "inflight",
         attempts |-> 1, ok |-> FALSE, result |-> <<>>]]

RECURSIVE Flatten(_)
Flatten(feedResults) ==
    IF feedResults = <<>> THEN <<>>
    ELSE Head(feedResults).result \o Flatten(Tail(feedResults))

\* The loop over users resumed at user ui: the fetches of the next user who
\* has eligible sources, or the sort and the writing of the files.
RECURSIVE GenContinue(_, _, _, _, _, _)
GenContinue(cfg, caller, ui, allArticles, processedUrls, outcomes) ==
    IF ui > Len(cfg.users)
    THEN [pc |-> "writeFeed", caller |-> caller,
          allArticles |-> SortByDateDesc(allArticles), outcomes |-> outcomes]
    ELSE LET urls == EligibleSources(cfg.users[ui], processedUrls)
         IN  IF urls = <<>>
             THEN GenContinue(cfg, caller, ui + 1, allArticles, processedUrls,
                              outcomes)
             ELSE [pc |-> "fetching", caller |-> caller, ui |-> ui,
                   allArticles |-> allArticles, outcomes |-> outcomes,
                   processedUrls |-> processedUrls \cup {urls[i] : i \in 1..Len(urls)},
                   fetches |-> LaunchFetches(urls)]

\* generateFeedJson returns; the refresh endpoint answers with the outcome.
GenReturn(caller, success) ==
    /\ gen' = IdleGen
    /\ genResult' = [success |-> success, caller |-> caller.kind,
                     outcomes |-> IF Has(gen, "outcomes") THEN gen.outcomes ELSE <<>>]
    /\ refreshResp' = IF caller.kind = "refresh"
                      THEN [status |-> IF success THEN 200 ELSE 500,
                            request |-> caller.request, success |-> success]
                      ELSE refreshResp

\* Lines 288-334: the config is read and the fetches of the first user start.
GenBegin(caller, configReadable) ==
    /\ gen.pc = "idle"
    /\ IF configReadable
       THEN /\ gen' = GenContinue(config, caller, 1, <<>>, {}, <<>>)
            /\ UNCHANGED <<genResult, refreshResp>>
       ELSE GenReturn(caller, FALSE)
    /\ UNCHANGED <<config, feedFile, usersFile, refreshKey>>
    /\ CallUnchanged

\* The offline entry point (lines 408-422).
GenerateFromScript(configReadable) ==
    GenBegin([kind |-> "script"], configReadable)

\* Which sources of a user were fetched and which were given up.
Outcomes(fetches) ==
    [i \in 1..Len(fetches) |->
        [url |-> fetches[i].url, ok |-> fetches[i].ok,
         attempts |-> fetches[i].attempts]]

\* Mutant: Promise.race instead of Promise.all.
AllSettled_any(fetches) == \E i \in 1..Len(fetches) : fetches[i].state = "done"
AllSettled(fetches) == \A i \in 1..Len(fetches) : fetches[i].state = "done"

\* Mutant: each callback pushes its articles when its own fetch completes.
GenFetchSettle_completionOrder(i, fetchOk) ==
    /\ gen.pc = "fetching"
    /\ i \in 1..Len(gen.fetches)
    /\ gen.fetches[i].state = "inflight"
    /\ LET f == gen.fetches[i]
           user == config.users[gen.ui]
           pushed == IF fetchOk THEN NormalizeFeed(user, Web[f.url]) ELSE <<>>
           settled ==
               IF fetchOk
               THEN [f EXCEPT !.state = "done", !.ok = TRUE]
               ELSE IF f.retries > 0
                    THEN [f EXCEPT !.state = "delay"]
                    ELSE [f EXCEPT !.state = "done"]
           fetches == [gen.fetches EXCEPT ![i] = settled]
       IN  gen' = IF AllSettled(fetches)
                  THEN GenContinue(config, gen.caller, gen.ui + 1,
                                   gen.allArticles \o pushed,
                                   gen.processedUrls,
                                   gen.outcomes \o Outcomes(fetches))
                  ELSE [gen EXCEPT !.fetches = fetches,
                                   !.allArticles = @ \o pushed]
    /\ UNCHANGED <<config, feedFile, usersFile, genResult, refreshKey, refreshResp>>
    /\ CallUnchanged

\* Lines 308-320 and 333-370: one parseURL of the current user settles.
GenFetchSettle(i, fetchOk) ==
    /\ gen.pc = "fetching"
    /\ i \in 1..Len(gen.fetches)
    /\ gen.fetches[i].state = "inflight"
    /\ LET f == gen.fetches[i]
           user == config.users[gen.ui]
           settled ==
               IF fetchOk
               THEN [f EXCEPT !.state = "done", !.ok = TRUE,
                              !.result = NormalizeFeed(user, Web[f.url])]
               ELSE IF f.retries > 0
                    THEN [f EXCEPT !.state = "delay"]
                    ELSE [f EXCEPT !.state = "done", !.result = <<>>]
           fetches == [gen.fetches EXCEPT ![i] = settled]
       IN  gen' = IF AllSettled(fetches)
                  THEN GenContinue(config, gen.caller, gen.ui + 1,
                                   gen.allArticles \o Flatten(fetches),
                                   gen.processedUrls,
                                   gen.outcomes \o Outcomes(fetches))
                  ELSE [gen EXCEPT !.fetches = fetches]
    /\ UNCHANGED <<config, feedFile, usersFile, genResult, refreshKey, refreshResp>>
    /\ CallUnchanged

\* Lines 315-316: the one-second timer fires and the fetch is tried again.
GenRetry(i) ==
    /\ gen.pc = "fetching"
    /\ i \in 1..Len(gen.fetches)
    /\ gen.fetches[i].state = "delay"
    /\ gen' = [gen EXCEPT !.fetches[i].state = "inflight",
                          !.fetches[i].retries = @ - 1,
                          !.fetches[i].attempts = @ + 1]
    /\ UNCHANGED <<config, feedFile, usersFile, genResult, refreshKey, refreshResp>>
    /\ CallUnchanged

\* Lines 375-387: the data directory is made and feed.json is written.
GenWriteFeed(writeOk) ==
    /\ gen.pc = "writeFeed"
    /\ IF writeOk
       THEN /\ feedFile' = JsonFile([articles |-> ToJson(gen.allArticles)])
            /\ gen' = [gen EXCEPT !.pc = "writeUsers"]
            /\ UNCHANGED <<genResult, refreshResp>>
       ELSE /\ GenReturn(gen.caller, FALSE)
            /\ UNCHANGED feedFile
    /\ UNCHANGED <<config, usersFile, refreshKey>>
    /\ CallUnchanged

\* Lines 389-405: users.json is written and the run returns.
GenWriteUsers(writeOk) ==
    /\ gen.pc = "writeUsers"
    /\ usersFile' = IF writeOk THEN JsonFile([users |-> config.users]) ELSE usersFile
    /\ GenReturn(gen.caller, writeOk)
    /\ UNCHANGED <<config, feedFile, refreshKey>>
    /\ CallUnchanged

(***************************************************************************)
(* The refresh endpoint                                                    *)
(***************************************************************************)
\* req.headers['x-api-key'] || req.body?.secretKey
SecretKey(request) ==
    IF Truthy(request.header) THEN request.header ELSE request.body
\* Mutant: the development key is accepted whatever the environment says.
ValidKey_devOnly(envKey) == "dev-key"
\* process.env.REFRESH_API_KEY || 'dev-key'
ValidKey(envKey) == IF Truthy(envKey) THEN envKey ELSE "dev-key"

Methods == {"GET", "POST"}
Keys == {Absent, "dev-key", "prod-key"}
Requests == [method : Methods, header : Keys, body : Keys]

RefreshUnchanged ==
    /\ UNCHANGED <<config, feedFile, usersFile, refreshKey>>
    /\ CallUnchanged

\* Lines 10-12.
RefreshMethodNotAllowed(request) ==
    /\ request.method # "POST"
    /\ refreshResp' = [status |-> 405, request |-> request]
    /\ UNCHANGED <<gen, genResult>>
    /\ RefreshUnchanged

\* Lines 14-20.
RefreshUnauthorized(request) ==
    /\ request.method = "POST"
    /\ SecretKey(request) # ValidKey(refreshKey)
    /\ refreshResp' = [status |-> 401, request |-> request]
    /\ UNCHANGED <<gen, genResult>>
    /\ RefreshUnchanged

\* Lines 22-25: generateFeed() is called.
RefreshGenerate(request, configReadable) ==
    /\ request.method = "POST"
    /\ SecretKey(request) = ValidKey(refreshKey)
    /\ GenBegin([kind |-> "refresh", request |-> request], configReadable)

(***************************************************************************)
(* The system: requests, the generator and the clock                       *)
(***************************************************************************)
\* feed.json before the first run: absent, unparseable, or JSON without a
\* usable articles array.
InitialFeedFiles ==
    {NoFile, CorruptFile, JsonFile([articles |-> <<>>]), JsonFile([error |-> "x"])}

Init ==
    /\ config \in Configs
    /\ now = 0
    /\ cachedArticles = NullCache
    /\ cacheTime = 0
    /\ feedFile \in InitialFeedFiles
    /\ usersFile = NoFile
    /\ calls = [c \in Calls |-> IdleCall]
    /\ resp = NoResponse
    /\ lastOp = NoOp
    /\ gen = IdleGen
    /\ genResult = NoResult
    /\ refreshKey = Absent
    /\ refreshResp = NoResponse
    /\ UsersApiIdle
    /\ timeline = NoPage

\* The URLs of the config, in the order the loops visit them.
RECURSIVE SourceUrls(_, _)
SourceUrls(cfg, ui) ==
    IF ui > Len(cfg.users) THEN {}
    ELSE {cfg.users[ui].sources[i] : i \in 1..Len(cfg.users[ui].sources)}
         \cup SourceUrls(cfg, ui + 1)

\* What a whole run of generateFeedJson writes to feed.json when exactly the
\* URLs in `reachable` can be fetched (each eligible source of a user
\* contributes NormalizeFeed or nothing, users in config order, then the sort).
RECURSIVE GenCollect(_, _, _, _)
GenCollect(cfg, ui, processedUrls, reachable) ==
    IF ui > Len(cfg.users) THEN <<>>
    ELSE LET user == cfg.users[ui]
             urls == EligibleSources(user, processedUrls)
             results == [i \in 1..Len(urls) |->
                           [result |-> IF urls[i] \in reachable
                                       THEN NormalizeFeed(user, Web[urls[i]])
                                       ELSE <<>>]]
         IN  Flatten(results) \o
             GenCollect(cfg, ui + 1,
                        processedUrls \cup {urls[i] : i \in 1..Len(urls)}, reachable)
GenOutput(cfg, reachable) == SortByDateDesc(GenCollect(cfg, 1, {}, reachable))

\* A run of the offline generation entry point in its own process, seen from
\* the articles API: feed.json is replaced by the run's output.
SnapshotGenerated(reachable) ==
    /\ feedFile' = JsonFile([articles |-> ToJson(GenOutput(config, reachable))])
    /\ lastOp' = NoOp
    /\ UNCHANGED <<config, now, cachedArticles, cacheTime, calls, resp>>
    /\ GenUnchanged

\* The runs of the generator that are tried: every source reachable, and
\* every source but one.
GeneratedRuns ==
    {SourceUrls(config, 1), SourceUrls(config, 1) \ {"a1"}}

ArticlesRequest ==
    \E c \in Calls, query \in SysQueries :
        \/ ServeFromCache(c, query)
        \/ ServeFromSnapshot(c, query)
        \/ \E configReadable \in BOOLEAN, writeOk \in BOOLEAN :
              LiveFetchStart(c, query, configReadable, writeOk)

ArticlesStep ==
    \E c \in Calls, fetchOk \in BOOLEAN, writeOk \in BOOLEAN :
        LiveFetchSettle(c, fetchOk, writeOk)

Next ==
    \/ \E t \in Instants : Tick(t)
    \/ ArticlesRequest
    \/ ArticlesStep
    \/ \E reachable \in GeneratedRuns : SnapshotGenerated(reachable)

Spec == Init /\ [][Next]_vars

(***************************************************************************)
(* The generator and the refresh endpoint on their own                     *)
(***************************************************************************)
InitGen ==
    /\ config \in Configs
    /\ now = 0
    /\ cachedArticles = NullCache
    /\ cacheTime = 0
    /\ feedFile = NoFile
    /\ usersFile = NoFile
    /\ calls = [c \in Calls |-> IdleCall]
    /\ resp = NoResponse
    /\ lastOp = NoOp
    /\ gen = IdleGen
    /\ genResult = NoResult
    /\ refreshKey \in {Absent, "", "prod-key"}
    /\ refreshResp = NoResponse
    /\ UsersApiIdle
    /\ timeline = NoPage

MaxFetches == 2

GeneratorStep ==
    \/ \E i \in 1..MaxFetches, fetchOk \in BOOLEAN : GenFetchSettle(i, fetchOk)
    \/ \E i \in 1..MaxFetches : GenRetry(i)
    \/ \E writeOk \in BOOLEAN : GenWriteFeed(writeOk)
    \/ \E writeOk \in BOOLEAN : GenWriteUsers(writeOk)

\* One run or one rejected request per behaviour: a run starts from
\* nothing but the config and overwrites both files.
NothingYet == gen = IdleGen /\ genResult = NoResult /\ refreshResp = NoResponse

RefreshRequest ==
    \E request \in Requests :
        \/ NothingYet /\ RefreshMethodNotAllowed(request)
        \/ NothingYet /\ RefreshUnauthorized(request)
        \/ \E configReadable \in BOOLEAN :
              NothingYet /\ RefreshGenerate(request, configReadable)

NextGen ==
    \/ \E configReadable \in BOOLEAN : NothingYet /\ GenerateFromScript(configReadable)
    \/ GeneratorStep
    \/ RefreshRequest

GenSpec == InitGen /\ [][NextGen]_vars

(***************************************************************************)
(* The two aggregators side by side: one run of the generator or one live  *)
(* fetch of the articles API, from the same config and the same feeds      *)
(***************************************************************************)
Quiet ==
    /\ NothingYet
    /\ resp = NoResponse
    /\ \A c \in Calls : calls[c].pc = "idle"

NextAgg ==
    \/ \E configReadable \in BOOLEAN : Quiet /\ GenerateFromScript(configReadable)
    \/ GeneratorStep
    \/ \E c \in Calls, query \in SysQueries, configReadable \in BOOLEAN,
          writeOk \in BOOLEAN :
            Quiet /\ LiveFetchStart(c, query, configReadable, writeOk)
    \/ ArticlesStep

AggSpec == InitGen /\ [][NextAgg]_vars

(***************************************************************************)
(* The generator on configs that declare a source URL more than once       *)
(***************************************************************************)
\* alice lists the URL a1 twice, around an empty entry.
AliceTwice == [Alice EXCEPT !.sources = <<"a1", "", "a1">>]
\* bob declares alice's URL a1 as well, before his own.
BobShares == [Bob EXCEPT !.sources = <<"a1", "b1">>]
ConfigRepeated == [users |-> <<AliceTwice, Bob>>]
ConfigShared == [users |-> <<Alice, BobShares>>]
ConfigSharedFirst == [users |-> <<BobShares, Alice>>]
DupConfigs == {ConfigRepeated, ConfigShared, ConfigSharedFirst}

InitDup ==
    /\ config \in DupConfigs
    /\ now = 0
    /\ cachedArticles = NullCache
    /\ cacheTime = 0
    /\ feedFile = NoFile
    /\ usersFile = NoFile
    /\ calls = [c \in Calls |-> IdleCall]
    /\ resp = NoResponse
    /\ lastOp = NoOp
    /\ gen = IdleGen
    /\ genResult = NoResult
    /\ refreshKey = Absent
    /\ refreshResp = NoResponse
    /\ UsersApiIdle
    /\ timeline = NoPage

NextDup ==
    \/ \E configReadable \in BOOLEAN : NothingYet /\ GenerateFromScript(configReadable)
    \/ GeneratorStep

DupSpec == InitDup /\ [][NextDup]_vars

(***************************************************************************)
(* Two overlapping calls of getAllArticles in one server process           *)
(***************************************************************************)
\* The two requests whose calls overlap.
Racers == {1, 2}

InitRace ==
    /\ config = ConfigJoined
    /\ now = 0
    /\ cachedArticles = NullCache
    /\ cacheTime = 0
    /\ feedFile = NoFile
    /\ usersFile = NoFile
    /\ calls = [c \in Racers |-> IdleCall]
    /\ resp = NoResponse
    /\ lastOp = NoOp
    /\ gen = IdleGen
    /\ genResult = NoResult
    /\ refreshKey = Absent
    /\ refreshResp = NoResponse
    /\ UsersApiIdle
    /\ timeline = NoPage

\* A call enters the live fetch.
RaceStart(c) ==
    \E configReadable \in BOOLEAN, writeOk \in BOOLEAN :
        LiveFetchStart(c, DefaultQuery, configReadable, writeOk)

RaceRequest ==
    \E c \in Racers :
        \/ ServeFromCache(c, DefaultQuery)
        \/ ServeFromSnapshot(c, DefaultQuery)
        \/ RaceStart(c)

RaceStep ==
    \E c \in Racers, fetchOk \in BOOLEAN, writeOk \in BOOLEAN :
        LiveFetchSettle(c, fetchOk, writeOk)

NextRace ==
    \/ \E t \in Instants : Tick(t)
    \/ RaceRequest
    \/ RaceStep

RaceSpec == InitRace /\ [][NextRace]_vars

(***************************************************************************)
(* The articles API under every failure: unreadable config, failing feeds, *)
(* failing save, and a snapshot whose articles have no tags                *)
(***************************************************************************)
\* A snapshot generated from a config whose user has no tags key.
TaglessSnapshot ==
    JsonFile([articles |-> << [link |-> "x/1", pubDate |-> <<2020, 1, 1, 0>>,
                               siteName |-> "Unknown Source", author |-> "dave"] >>])
FaultQueries == {DefaultQuery, [DefaultQuery EXCEPT !.tag = "go"]}

InitFault ==
    /\ config \in Configs
    /\ now = 0
    /\ cachedArticles = NullCache
    /\ cacheTime = 0
    /\ feedFile \in {NoFile, TaglessSnapshot}
    /\ usersFile = NoFile
    /\ calls = [c \in Calls |-> IdleCall]
    /\ resp = NoResponse
    /\ lastOp = NoOp
    /\ gen = IdleGen
    /\ genResult = NoResult
    /\ refreshKey = Absent
    /\ refreshResp = NoResponse
    /\ UsersApiIdle
    /\ timeline = NoPage

FaultRequest ==
    \E c \in Calls, query \in FaultQueries :
        \/ ServeFromCache(c, query)
        \/ ServeFromSnapshot(c, query)
        \/ \E configReadable \in BOOLEAN, writeOk \in BOOLEAN :
              LiveFetchStart(c, query, configReadable, writeOk)

NextFault ==
    \/ \E t \in Instants : Tick(t)
    \/ FaultRequest
    \/ ArticlesStep

FaultSpec == InitFault /\ [][NextFault]_vars

(***************************************************************************)
(* Pagination and filters on a fixed aggregate                             *)
(***************************************************************************)
MaxAlice == 3
MaxBob == 22
\* The sizes of bob's feed that are tried: the small ones, the ten-article
\* aggregate and the largest.
BobSizes == {0, 1, 2, 7, MaxBob}

\* A feed of n dated items; neighbours share dates now and then.
SampleFeed(prefix, n) ==
    [title |-> prefix,
     items |-> [k \in 1..n |->
        [link |-> <<prefix, k>>,
         pubDate |-> <<2019 + (k % 4), 1 + ((k \div 2) % 12), 1, 0>>]]]
\* What the generator produces from a feed of na items of alice and a feed
\* of nb items of bob.
SampleAggregate(na, nb) ==
    SortByDateDesc(NormalizeFeed(Alice, SampleFeed("a", na))
                   \o NormalizeFeed(Bob, SampleFeed("b", nb)))

PageRaws == {Absent, "", "abc", "-1", "0", "1", "2", "3", "4", "99", "1.5"}
PerPageRaws == {Absent, "", "abc", "0", "1", "2", "12", "-3", "2.5", "0.5"}
AuthorRaws == {Absent, "", "alice", "bob", "nobody"}
TagRaws == {Absent, "rust", "go"}
FlagRaws == {Absent, "true", "false"}
PageQueries ==
    [page : PageRaws, perPage : PerPageRaws, author : AuthorRaws,
     tag : TagRaws, duringEmploymentOnly : FlagRaws]

InitPage ==
    /\ config = ConfigJoinedAt
    /\ now = 0
    /\ \E na \in 0..MaxAlice, nb \in BobSizes :
          cachedArticles = ArrayCache(SampleAggregate(na, nb))
    /\ cacheTime = 0
    /\ feedFile = NoFile
    /\ usersFile = NoFile
    /\ calls = [c \in Calls |-> IdleCall]
    /\ resp = NoResponse
    /\ lastOp = NoOp
    /\ gen = IdleGen
    /\ genResult = NoResult
    /\ refreshKey = Absent
    /\ refreshResp = NoResponse
    /\ UsersApiIdle
    /\ timeline = NoPage

\* One request per behaviour: on a fresh entry the handler changes nothing
\* but the response.
NextPage ==
    /\ resp = NoResponse
    /\ \E query \in PageQueries : ServeFromCache(1, query)

PageSpec == InitPage /\ [][NextPage]_vars

(***************************************************************************)
(* The users API and the props of the index page                           *)
(***************************************************************************)
\* A user whose entry in config.yaml has no left_at key at all.
Carol == [name |-> "carol", joined_at |-> [year |-> 2022, month |-> 3],
          tags |-> <<"swift">>, sources |-> <<"c1">>]
UserConfigs ==
    {[users |-> <<>>], [users |-> <<Alice>>], [users |-> <<Bob>>],
     [users |-> <<Carol>>], [users |-> <<Alice, Bob>>],
     [users |-> <<Bob, Carol>>], [users |-> <<Alice, Bob, Carol>>]}

\* userData.users && Array.isArray(userData.users) && userData.users.length > 0
UsersFileValid(file) ==
    /\ file.kind = "json"
    /\ Has(file.data, "users")
    /\ Len(file.data.users) > 0

\* users.find(u => u.name === userName) || null
FindUser(users, userName) ==
    IF \E i \in 1..Len(users) : users[i].name = userName
    THEN users[CHOOSE i \in 1..Len(users) :
                  /\ users[i].name = userName
                  /\ \A j \in 1..(i - 1) : users[j].name # userName]
    ELSE NullValue

\* user => user.left_at === null
LeftAtIsNull(user) == Has(user, "left_at") /\ user.left_at = NullValue
ActiveUsers(users) == SelectSeq(users, LeftAtIsNull)

\* The response of the users handler once getAllUsers has returned `users`.
UsersAnswer(users, userName) ==
    [status |-> 200, name |-> userName, all |-> users,
     body |-> IF Truthy(userName)
              THEN [user |-> FindUser(users, userName)]
              ELSE [users |-> ActiveUsers(users)]]

UsersUnchanged ==
    UNCHANGED <<config, cachedArticles, cacheTime, feedFile, calls, resp, lastOp,
                gen, genResult, refreshKey, refreshResp, initialUsers, timeline>>

UsersCacheFresh ==
    ~cachedUsers.isNull /\ (now - usersCacheTime < CACHE_DURATION)

\* A fresh in-memory user list is returned as it is.
UsersFromCache(userName) ==
    /\ UsersCacheFresh
    /\ usersResp' = UsersAnswer(cachedUsers.items, userName)
    /\ UNCHANGED <<now, usersFile, cachedUsers, usersCacheTime>>
    /\ UsersUnchanged

\* users.json is adopted.
UsersFromFile(userName) ==
    /\ ~UsersCacheFresh
    /\ UsersFileValid(usersFile)
    /\ cachedUsers' = ArrayCache(usersFile.data.users)
    /\ usersCacheTime' = now
    /\ usersResp' = UsersAnswer(usersFile.data.users, userName)
    /\ UNCHANGED <<now, usersFile>>
    /\ UsersUnchanged

\* The users are read from config.yaml and saved; an unreadable config
\* yields the empty list.
UsersFromConfig(userName, configReadable, writeOk) ==
    /\ ~UsersCacheFresh
    /\ ~UsersFileValid(usersFile)
    /\ IF configReadable
       THEN /\ cachedUsers' = ArrayCache(config.users)
            /\ usersCacheTime' = now
            /\ usersFile' = IF writeOk THEN JsonFile([users |-> config.users])
                            ELSE usersFile
            /\ usersResp' = UsersAnswer(config.users, userName)
       ELSE /\ usersResp' = UsersAnswer(<<>>, userName)
            /\ UNCHANGED <<cachedUsers, usersCacheTime, usersFile>>
    /\ UNCHANGED now
    /\ UsersUnchanged

\* getStaticProps of the index page.
GetStaticProps(configReadable) ==
    /\ initialUsers' = [built |-> TRUE, configRead |-> configReadable,
                        initialUsers |-> IF configReadable
                                         THEN ActiveUsers(config.users) ELSE <<>>]
    /\ UNCHANGED <<config, now, cachedArticles, cacheTime, feedFile, usersFile,
                   calls, resp, lastOp, gen, genResult, refreshKey, refreshResp,
                   cachedUsers, usersCacheTime, usersResp, timeline>>

UserNames == {Absent, "", "alice", "bob", "carol", "nobody"}

InitUsers ==
    /\ config \in UserConfigs
    /\ now = 0
    /\ cachedArticles = NullCache
    /\ cacheTime = 0
    /\ feedFile = NoFile
    /\ usersFile \in {NoFile, CorruptFile, JsonFile([users |-> <<>>]),
                      JsonFile([users |-> config.users])}
    /\ calls = [c \in Calls |-> IdleCall]
    /\ resp = NoResponse
    /\ lastOp = NoOp
    /\ gen = IdleGen
    /\ genResult = NoResult
    /\ refreshKey = Absent
    /\ refreshResp = NoResponse
    /\ UsersApiIdle
    /\ timeline = NoPage

UsersRequest ==
    \E userName \in UserNames :
        \/ UsersFromCache(userName)
        \/ UsersFromFile(userName)
        \/ \E configReadable \in BOOLEAN, writeOk \in BOOLEAN :
              UsersFromConfig(userName, configReadable, writeOk)

NextUsers ==
    \/ \E t \in Instants : Tick(t)
    \/ UsersRequest
    \/ \E configReadable \in BOOLEAN : GetStaticProps(configReadable)

UsersSpec == InitUsers /\ [][NextUsers]_vars

(***************************************************************************)
(* The timeline pages in the browser (home, tag, user): infinite scroll    *)
(* over /api/articles and the employment-only switch of the user page      *)
(***************************************************************************)
\* The collection the server pages through while the page is open.
ServerArticles == SampleAggregate(MaxAlice, MaxBob)

\* `${currentPage}` in the query string.
PageParam ==
    (-1 :> "-1") @@ (0 :> "0") @@ (1 :> "1") @@ (2 :> "2") @@ (3 :> "3")
    @@ (4 :> "4")

\* The query of the fetch of a page: the tag page asks for its tag, the
\* user page for its author and the position of the switch.
TimelineQuery(kind, page, showOnlyDuringEmployment) ==
    [page |-> PageParam[page], perPage |-> "12",
     author |-> IF kind = "user" THEN "bob" ELSE Absent,
     tag |-> IF kind = "tag" THEN "go" ELSE Absent,
     duringEmploymentOnly |->
         IF kind # "user" THEN Absent
         ELSE IF showOnlyDuringEmployment THEN "true" ELSE "false"]

\* A fetch started by an effect of the page in state t.
Request(effect, t, page) ==
    [effect |-> effect,
     query |-> TimelineQuery(t.kind, page, t.showOnlyDuringEmployment)]

\* response.json() of a request the server has answered.
Fetched(request) == HandlerResponse(ServerArticles, request.query).body

\* The effect on [currentPage, ...]: nothing for page 1, else the fetch of
\* the current page is started.
LoadMoreEffect(t) ==
    IF t.currentPage = 1 THEN t
    ELSE [t EXCEPT !.isLoading = TRUE, !.error = FALSE,
                   !.requests = Append(@, Request("loadMoreArticles", t,
                                                  t.currentPage))]

\* The page after its first render and the effects of the mount: the user
\* page runs loadInitialArticles and reloadWithFilter.
Mounted(kind) ==
    LET t == [kind |-> kind, articles |-> <<>>, currentPage |-> 1,
              totalPages |-> 1, isLoading |-> FALSE, initialLoading |-> TRUE,
              error |-> FALSE, hasMore |-> TRUE,
              showOnlyDuringEmployment |-> FALSE, requests |-> <<>>,
              failures |-> 0, toggles |-> 0, scrolled |-> FALSE]
    IN  [t EXCEPT !.requests =
            IF kind = "user"
            THEN <<Request("loadInitialArticles", t, 1),
                   Request("reloadWithFilter", t, 1)>>
            ELSE <<Request("loadInitialArticles", t, 1)>>]

MaxFailures == 1
MaxToggles == 1

ServerUnchanged ==
    UNCHANGED <<config, now, cachedArticles, cacheTime, feedFile, usersFile,
                calls, resp, lastOp, gen, genResult, refreshKey, refreshResp,
                cachedUsers, usersCacheTime, usersResp, initialUsers>>

\* The last card comes into view: the observer asks for the next page.
Intersect ==
    /\ timeline.kind # "none"
    /\ ~timeline.initialLoading /\ timeline.articles # <<>>
    /\ ~timeline.isLoading /\ timeline.hasMore
    /\ timeline.currentPage + 1 \in DOMAIN PageParam
    /\ timeline' = LoadMoreEffect([timeline EXCEPT !.currentPage = @ + 1,
                                                   !.scrolled = TRUE])
    /\ ServerUnchanged

\* A request leaves the set of requests in flight.
Settled(t, i) ==
    [t EXCEPT !.requests = SubSeq(@, 1, i - 1) \o SubSeq(@, i + 1, Len(@))]
HasMore(data) == data.pagination.page < 2 * data.pagination.totalPages

\* loadInitialArticles continues after its fetch.
LoadInitialSettle(i, ok) ==
    /\ timeline.kind # "none"
    /\ i \in DOMAIN timeline.requests
    /\ timeline.requests[i].effect = "loadInitialArticles"
    /\ ok \/ timeline.failures < MaxFailures
    /\ LET data == Fetched(timeline.requests[i])
           t == [Settled(timeline, i) EXCEPT !.initialLoading = FALSE]
       IN  timeline' =
               IF ok
               THEN LoadMoreEffect(
                        [t EXCEPT !.articles = data.articles,
                                  !.totalPages = data.pagination.totalPages,
                                  !.hasMore = HasMore(data),
                                  !.currentPage = 1])
               ELSE [t EXCEPT !.error = TRUE, !.failures = @ + 1]
    /\ ServerUnchanged

\* loadMoreArticles continues after its fetch: the page is appended, or
\* currentPage is taken back by one, which runs the effect again.
LoadMoreSettle(i, ok) ==
    /\ timeline.kind # "none"
    /\ i \in DOMAIN timeline.requests
    /\ timeline.requests[i].effect = "loadMoreArticles"
    /\ ok \/ (/\ timeline.failures < MaxFailures
              /\ timeline.currentPage - 1 \in DOMAIN PageParam)
    /\ LET data == Fetched(timeline.requests[i])
           t == [Settled(timeline, i) EXCEPT !.isLoading = FALSE]
       IN  timeline' =
               IF ok
               THEN [t EXCEPT !.articles = @ \o data.articles,
                              !.hasMore = HasMore(data)]
               ELSE LoadMoreEffect(
                        [t EXCEPT !.error = TRUE, !.failures = @ + 1,
                                  !.currentPage = @ - 1])
    /\ ServerUnchanged

\* reloadWithFilter continues after its fetch.
ReloadSettle(i, ok) ==
    /\ timeline.kind # "none"
    /\ i \in DOMAIN timeline.requests
    /\ timeline.requests[i].effect = "reloadWithFilter"
    /\ ok \/ timeline.failures < MaxFailures
    /\ LET data == Fetched(timeline.requests[i])
           t == [Settled(timeline, i) EXCEPT !.initialLoading = FALSE]
       IN  timeline' =
               IF ok
               THEN [t EXCEPT !.articles = data.articles,
                              !.totalPages = data.pagination.totalPages,
                              !.hasMore = HasMore(data)]
               ELSE [t EXCEPT !.error = TRUE, !.failures = @ + 1]
    /\ ServerUnchanged

\* The switch is clicked: both effects that depend on it run, first the
\* one of loadMoreArticles with the page shown, then reloadWithFilter,
\* which resets the list and the page.
SetShowOnlyDuringEmployment ==
    /\ timeline.kind = "user"
    /\ timeline.toggles < MaxToggles
    /\ LET flipped == [timeline EXCEPT !.showOnlyDuringEmployment = ~@,
                                       !.toggles = @ + 1,
                                       !.scrolled = FALSE]
           t == LoadMoreEffect(flipped)
       IN  timeline' =
               [t EXCEPT !.initialLoading = TRUE, !.error = FALSE,
                         !.currentPage = 1, !.articles = <<>>,
                         !.requests = Append(@, Request("reloadWithFilter",
                                                        flipped, 1))]
    /\ ServerUnchanged

Kinds == {"home", "tag", "user"}

InitClient ==
    /\ config = ConfigJoinedAt
    /\ now = 0
    /\ cachedArticles = ArrayCache(ServerArticles)
    /\ cacheTime = 0
    /\ feedFile = NoFile
    /\ usersFile = NoFile
    /\ calls = [c \in Calls |-> IdleCall]
    /\ resp = NoResponse
    /\ lastOp = NoOp
    /\ gen = IdleGen
    /\ genResult = NoResult
    /\ refreshKey = Absent
    /\ refreshResp = NoResponse
    /\ UsersApiIdle
    /\ timeline \in {Mounted(kind) : kind \in Kinds}

NextClient ==
    \/ Intersect
    \/ SetShowOnlyDuringEmployment
    \/ \E i \in 1..(2 * MaxToggles + 3), ok \in BOOLEAN :
          \/ LoadInitialSettle(i, ok)
          \/ LoadMoreSettle(i, ok)
          \/ ReloadSettle(i, ok)

ClientSpec == InitClient /\ [][NextClient]_vars

(***************************************************************************)
(* Properties of the pagination and the filters (PageSpec)                 *)
(***************************************************************************)
Answered == resp.status = 200
Params == ParseQuery(resp.query)
\* perPage is an integer >= 1.
IntegerPerPage == Params.perPage >= 2 /\ Params.perPage % 2 = 0
IntegerPage == Params.page % 2 = 0
Pagination == resp.body.pagination

\* The articles the handler returns for page k of a collection.
PageOf(articles, k) == Paginate(articles, [Params EXCEPT !.page = 2 * k]).articles
RECURSIVE ConcatPages(_, _, _)
ConcatPages(articles, k, last) ==
    IF k > last THEN <<>>
    ELSE PageOf(articles, k) \o ConcatPages(articles, k + 1, last)

\* C1: for an integer perPage >= 1 every page 1..totalPages holds at most
\* perPage articles and the pages in order are exactly the filtered
\* collection, each article once and none missing.
C1_PagesPartitionFiltered ==
    (Answered /\ IntegerPerPage) =>
        LET filtered == FilterArticles(resp.all, Params)
        IN  /\ \A k \in 1..Pagination.totalPages :
                  2 * Len(PageOf(filtered, k)) <= Params.perPage
            /\ ConcatPages(filtered, 1, Pagination.totalPages) = filtered
            /\ 2 * Len(resp.body.articles) <= Params.perPage

C1_Witness ==
    /\ Answered /\ IntegerPerPage
    /\ Pagination.total = 25 /\ Pagination.perPage = 2 * 12
    /\ Pagination.totalPages = 3 /\ Pagination.page = 2 * 2
    /\ Len(resp.body.articles) = 12

\* C2: for an integer perPage >= 1 the descriptor has total = the number of
\* filtered articles, totalPages = max(1, ceil(total / perPage)) and
\* 1 <= page <= totalPages; the page is the requested page clamped into
\* that range, the slice is the slice of the clamped page and is non-empty
\* when total > 0; 25 articles with perPage 12 give 3 pages and page 3
\* holds one article.
C2_DescriptorAndClamp ==
    (Answered /\ IntegerPerPage) =>
        LET filtered == FilterArticles(resp.all, Params)
            total == Pagination.total
            per == Params.perPage \div 2
            pages == Pagination.totalPages
            page == Pagination.page
        IN  /\ total = Len(filtered)
            /\ pages >= 1 /\ pages * per >= total
            /\ (pages > 1 => (pages - 1) * per < total)
            /\ 2 <= page /\ page <= 2 * pages
            /\ (Params.page < 2 => page = 2)
            /\ (Params.page > 2 * pages => page = 2 * pages)
            /\ (Params.page \in 2..(2 * pages) => page = Params.page)
            /\ (IntegerPage =>
                  resp.body.articles =
                      SubSeq(filtered, ((page \div 2) - 1) * per + 1,
                             Min((page \div 2) * per, total)))
            /\ (total > 0 => resp.body.articles # <<>>)
            /\ ((total = 25 /\ per = 12) =>
                  /\ pages = 3
                  /\ (page = 2 * 3 => Len(resp.body.articles) = 1))

C2_Witness ==
    /\ Answered
    /\ resp.query.page = "99" /\ resp.query.perPage = "12"
    /\ Pagination.total = 25 /\ Pagination.totalPages = 3
    /\ Pagination.page = 2 * 3
    /\ Len(resp.body.articles) = 1

AuthorMatches(a) == a.author = resp.query.author
EmploymentFlagged(a) == Has(a, "isDuringEmployment") /\ a.isDuringEmployment
CarriesTag(a) == \E i \in DOMAIN a.tags : a.tags[i] = resp.query.tag
AuthorGiven == resp.query.author \notin {Absent, ""}
TagGiven == resp.query.tag \notin {Absent, ""}
EmploymentOnly == resp.query.duringEmploymentOnly = "true"
FlipFlag(query) ==
    [query EXCEPT !.duringEmploymentOnly = IF @ = "true" THEN "false" ELSE "true"]

\* C3: with an author (and no tag) the result is exactly the articles of
\* that author, and with duringEmploymentOnly exactly the flagged ones of
\* them; without an author duringEmploymentOnly changes nothing.
C3_AuthorAndEmploymentFilter ==
    Answered =>
        /\ (AuthorGiven /\ ~TagGiven) =>
              LET keeps(a) == AuthorMatches(a) /\ (EmploymentOnly => EmploymentFlagged(a))
              IN  resp.body = Paginate(SelectSeq(resp.all, keeps), Params)
        /\ ~AuthorGiven =>
              resp.body = HandlerResponse(resp.all, FlipFlag(resp.query)).body

C3_Witness ==
    /\ Answered /\ AuthorGiven /\ ~TagGiven /\ EmploymentOnly
    /\ \E i \in DOMAIN resp.all :
          AuthorMatches(resp.all[i]) /\ ~EmploymentFlagged(resp.all[i])
    /\ resp.body.articles # <<>>

C3_WitnessNoAuthor ==
    /\ Answered /\ ~AuthorGiven /\ EmploymentOnly
    /\ \E i \in DOMAIN resp.body.articles : ~EmploymentFlagged(resp.body.articles[i])

\* C4: with a tag the filtered collection is exactly the articles that
\* carry the tag among those the author and employment filter keeps, in
\* the order of the aggregate; 3 tagged articles among 10 come back as
\* exactly those 3 in descending date order.
C4_TagFilter ==
    (Answered /\ TagGiven) =>
        LET keeps(a) ==
                /\ CarriesTag(a)
                /\ AuthorGiven => AuthorMatches(a)
                /\ (AuthorGiven /\ EmploymentOnly) => EmploymentFlagged(a)
            expected == SelectSeq(resp.all, keeps)
        IN  /\ resp.body = Paginate(expected, Params)
            /\ IsSortedDesc(resp.body.articles)
            /\ \A i \in DOMAIN resp.body.articles : CarriesTag(resp.body.articles[i])

C4_Witness ==
    /\ Answered /\ resp.query.tag = "rust" /\ ~AuthorGiven
    /\ Len(resp.all) = 10
    /\ Pagination.total = 3
    /\ Len(resp.body.articles) = 3
    /\ \A i \in 1..3 : resp.body.articles[i].author = "alice"

(***************************************************************************)
(* Properties of the generator (GenSpec)                                   *)
(***************************************************************************)
\* The articles of the snapshot the generator has written.
WrittenArticles ==
    IF feedFile.kind = "json" /\ Has(feedFile.data, "articles")
    THEN feedFile.data.articles ELSE <<>>
UserNamed(name) == CHOOSE i \in 1..Len(config.users) : config.users[i].name = name
AuthorOf(a) == config.users[UserNamed(a.author)]

\* The tenure window read off the calendar fields <<year, month, day, hour>>
\* of a publish date: from the first instant of the start month (any date
\* when no start is recorded) up to the instant the Date of the recorded end
\* stands for, the first instant of the end month (any date when no
\* departure is recorded).
NotBeforeStart(p, user) ==
    Has(user, "joined_at") =>
        \/ p[1] > user.joined_at.year
        \/ p[1] = user.joined_at.year /\ p[2] >= user.joined_at.month
NotAfterEnd(p, user) ==
    (Has(user, "left_at") /\ user.left_at # NullValue) =>
        \/ p[1] < user.left_at.year
        \/ p[1] = user.left_at.year /\ p[2] < user.left_at.month
        \/ p = <<user.left_at.year, user.left_at.month, 1, 0>>

\* C5: every article the generator emits is flagged isDuringEmployment
\* exactly when its publish date lies between the author's tenure start
\* (far past when absent) and tenure end (far future when no departure is
\* recorded); for the tenure 2020-01..2021-06 an article of 2021-07-01 is
\* not flagged and one of 2021-05-01 is.
C5_EmploymentFlag ==
    \A i \in DOMAIN WrittenArticles :
        LET a == WrittenArticles[i]
            user == AuthorOf(a)
        IN  /\ a.isDuringEmployment \in BOOLEAN
            /\ a.isDuringEmployment <=>
                  (NotBeforeStart(a.pubDate, user) /\ NotAfterEnd(a.pubDate, user))
            /\ (a.author = "alice" /\ config = ConfigJoinedAt) =>
                  /\ a.pubDate = <<2021, 7, 1, 0>> => ~a.isDuringEmployment
                  /\ a.pubDate = <<2021, 5, 1, 0>> => a.isDuringEmployment

C5_Witness ==
    /\ config = ConfigJoinedAt
    /\ \E i, j, k \in DOMAIN WrittenArticles :
          /\ WrittenArticles[i].author = "alice"
          /\ WrittenArticles[i].pubDate = <<2021, 7, 1, 0>>
          /\ ~WrittenArticles[i].isDuringEmployment
          /\ WrittenArticles[j].author = "alice"
          /\ WrittenArticles[j].pubDate = <<2021, 5, 1, 0>>
          /\ WrittenArticles[j].isDuringEmployment
          /\ WrittenArticles[k].author = "bob"
          /\ WrittenArticles[k].isDuringEmployment

(***************************************************************************)
(* Properties of getAllArticles (Spec)                                     *)
(***************************************************************************)
\* The dated items of the feed behind a URL.
DatedLinks(url) ==
    {Web[url].items[i].link :
        i \in {j \in DOMAIN Web[url].items : HasPubDate(Web[url].items[j])}}
AllLinks(url) == {Web[url].items[i].link : i \in DOMAIN Web[url].items}
LinksIn(articles) == {articles[i].link : i \in DOMAIN articles}

\* A source that was given up has no article in the aggregate and a source
\* that was fetched has all of its dated items in it.
SourcesIsolated(outcomes, aggregate) ==
    \A i \in DOMAIN outcomes :
        LET o == outcomes[i]
        IN  /\ ~o.ok => AllLinks(o.url) \cap LinksIn(aggregate) = {}
            /\ o.ok => DatedLinks(o.url) \subseteq LinksIn(aggregate)

\* C6: in the generator and in the live-fetch fallback, once the run has
\* gone through all sources, a source whose fetch failed on every attempt
\* has contributed no article and every other source has contributed all
\* of its dated items.
C6_FailedSourceIsolated ==
    /\ gen.pc \in {"writeFeed", "writeUsers"} =>
          SourcesIsolated(gen.outcomes, gen.allArticles)
    /\ (resp.status = 200 /\ resp.via = "live") =>
          SourcesIsolated(resp.outcomes, resp.all)

\* A step in which getAllArticles is entered.
EntryStep == lastOp'.entry
\* A step in which a live fetch reaches the sort.
LiveFinishStep ==
    /\ lastOp'.path = "live"
    /\ EntryStep \/ calls' # calls

\* C7: a call made while an in-memory entry younger than 10 minutes exists
\* returns that entry, performs no disk read, no fetch and no write, and
\* leaves the entry and its timestamp as they are.
C7_FreshEntryServedUntouched ==
    [][(EntryStep /\ ~cachedArticles.isNull /\ now - cacheTime < 10 * 60 * 1000) =>
          /\ resp'.status = 200
          /\ resp'.all = cachedArticles.items
          /\ lastOp'.io = {}
          /\ cachedArticles' = cachedArticles
          /\ cacheTime' = cacheTime
          /\ feedFile' = feedFile
          /\ calls' = calls]_vars

C7_Witness ==
    /\ lastOp.path = "cache" /\ resp.via = "cache"
    /\ now = CACHE_DURATION - 1 /\ cacheTime = 0
    /\ feedFile.kind = "json" /\ Has(feedFile.data, "articles")
    /\ feedFile.data.articles # cachedArticles.items
    /\ resp.all = cachedArticles.items

\* The snapshot file exists, parses and holds a non-empty articles array.
UsableSnapshot ==
    /\ feedFile.kind \notin {"missing", "corrupt"}
    /\ "articles" \in DOMAIN feedFile.data
    /\ feedFile.data.articles # <<>>
StaleOrNoEntry == cachedArticles.isNull \/ now - cacheTime >= 10 * 60 * 1000

\* C8: a call that finds no fresh entry adopts the snapshot, stamped with
\* the current time, and returns it exactly when the snapshot is usable;
\* otherwise the snapshot is not adopted, no error is answered and the call
\* goes on with the live fetch.
C8_SnapshotAdoptedIffUsable ==
    [][(EntryStep /\ StaleOrNoEntry) =>
          /\ UsableSnapshot =>
                /\ lastOp'.path = "snapshot"
                /\ cachedArticles' = ArrayCache(feedFile.data.articles)
                /\ cacheTime' = now
                /\ resp'.status = 200 /\ resp'.all = feedFile.data.articles
                /\ calls' = calls /\ feedFile' = feedFile
          /\ ~UsableSnapshot =>
                /\ lastOp'.path \in {"fetching", "live", "error"}
                /\ "readConfig" \in lastOp'.io
                /\ lastOp'.path = "fetching" =>
                      /\ calls'[lastOp'.call].pc = "parseURL"
                      /\ resp' = resp
                /\ lastOp'.path # "live" =>
                      cachedArticles' = cachedArticles /\ cacheTime' = cacheTime
                /\ resp'.status \in {0, 200}]_vars

C8_Witness ==
    /\ lastOp.path = "snapshot" /\ resp.via = "snapshot"
    /\ cacheTime = CACHE_DURATION /\ now = CACHE_DURATION
    /\ cachedArticles = ArrayCache(feedFile.data.articles)
    /\ Len(resp.all) > 3

C8_WitnessFallThrough ==
    /\ lastOp.path = "fetching" /\ feedFile.kind = "json"
    /\ cachedArticles.isNull

\* The aggregate the fallback builds from the parseURL outcomes of a call.
RECURSIVE FallbackCollect(_)
FallbackCollect(outcomes) ==
    IF outcomes = <<>> THEN <<>>
    ELSE LET o == Head(outcomes)
             user == config.users[CHOOSE ui \in DOMAIN config.users :
                        \E si \in DOMAIN config.users[ui].sources :
                            config.users[ui].sources[si] = o.url]
         IN  (IF o.ok THEN FallbackFeed(user, Web[o.url]) ELSE <<>>)
             \o FallbackCollect(Tail(outcomes))

\* C9: a live fetch that reaches its end puts the sorted result into the
\* in-memory entry and returns it, whether the snapshot could be saved or
\* not; a failed save changes neither of them nor the file and is not
\* reported.
C9_LiveResultAdoptedDespiteSaveFailure ==
    [][LiveFinishStep =>
          /\ resp'.status = 200 /\ resp'.via = "live"
          /\ resp'.all = SortByDateDesc(FallbackCollect(resp'.outcomes))
          /\ cachedArticles' = ArrayCache(resp'.all)
          /\ "writeFailed" \in lastOp'.io => feedFile' = feedFile
          /\ "writeFile" \in lastOp'.io =>
                feedFile' = JsonFile([articles |-> resp'.all])]_vars

C9_Witness ==
    /\ lastOp.path = "live" /\ "writeFailed" \in lastOp.io
    /\ resp.via = "live" /\ resp.all # <<>>
    /\ cachedArticles = ArrayCache(resp.all)
    /\ ~UsableSnapshot

(***************************************************************************)
(* Properties of the refresh endpoint (GenSpec)                            *)
(***************************************************************************)
SuppliedKey(request) ==
    IF request.header \notin {Absent, ""} THEN request.header ELSE request.body
ExpectedKey == IF refreshKey \in {Absent, ""} THEN "dev-key" ELSE refreshKey
Authorized(request) ==
    request.method = "POST" /\ SuppliedKey(request) = ExpectedKey
RefreshAnswered == refreshResp' # refreshResp
GenerationUntouched ==
    gen' = gen /\ genResult' = genResult /\ feedFile' = feedFile /\ usersFile' = usersFile

\* C10: generation runs for a refresh request exactly when it is a POST
\* whose supplied key equals the valid key; a non-POST request gets 405 and
\* a key mismatch 401 with no generation started; on a match the answer is
\* 200 exactly when generation reports success and 500 otherwise.
C10_RefreshAuthorization ==
    [][/\ refreshResp'.status \in {0, 200, 401, 405, 500}
       /\ (RefreshAnswered /\ refreshResp'.status = 405) =>
             refreshResp'.request.method # "POST" /\ GenerationUntouched
       /\ (RefreshAnswered /\ refreshResp'.status = 401) =>
             /\ refreshResp'.request.method = "POST"
             /\ SuppliedKey(refreshResp'.request) # ExpectedKey
             /\ GenerationUntouched
       /\ (gen.pc = "idle" /\ gen'.pc # "idle" /\ gen'.caller.kind = "refresh") =>
             Authorized(gen'.caller.request) /\ ~RefreshAnswered
       /\ (RefreshAnswered /\ refreshResp'.status \in {200, 500}) =>
             /\ Authorized(refreshResp'.request)
             /\ gen'.pc = "idle"
             /\ gen.pc # "idle" => gen.caller = [kind |-> "refresh",
                                                 request |-> refreshResp'.request]
             /\ genResult'.caller = "refresh"
             /\ refreshResp'.status = 200 <=> genResult'.success
             /\ genResult'.success =>
                   (feedFile'.kind = "json" /\ usersFile'.kind = "json")]_vars

C10_Witness ==
    /\ refreshResp.status = 200
    /\ refreshKey = "prod-key"
    /\ refreshResp.request.header = Absent
    /\ refreshResp.request.body = "prod-key"
    /\ feedFile.kind = "json"

C10_WitnessRejected ==
    /\ refreshResp.status = 401
    /\ refreshKey = "prod-key"
    /\ refreshResp.request.header = "dev-key"
    /\ refreshResp.request.body = "prod-key"

(***************************************************************************)
(* Properties of the users endpoint (UsersSpec)                            *)
(***************************************************************************)
NoRecordedDeparture(user) ==
    "left_at" \notin DOMAIN user \/ user.left_at = [null |-> TRUE]
NameGiven == usersResp.name \notin {Absent, ""}
UsersLoaded == usersResp.status = 200 /\ usersResp.all = config.users

\* C11: given a name the users endpoint returns the user of that name or
\* null; given no name it returns exactly the users with no recorded
\* departure, a null left_at and an absent left_at both counting as none;
\* the index page is built with the same active users.
C11_ActiveUsers ==
    /\ UsersLoaded =>
          /\ NameGiven =>
                LET hits == {i \in DOMAIN config.users :
                                config.users[i].name = usersResp.name}
                IN  IF hits = {} THEN usersResp.body.user = [null |-> TRUE]
                    ELSE \E i \in hits : usersResp.body.user = config.users[i]
          /\ ~NameGiven =>
                usersResp.body.users = SelectSeq(config.users, NoRecordedDeparture)
    /\ (initialUsers.built /\ initialUsers.configRead) =>
          initialUsers.initialUsers = SelectSeq(config.users, NoRecordedDeparture)

(***************************************************************************)
(* Malformed numeric query values (PageSpec)                               *)
(***************************************************************************)
\* A query value that is missing, empty or not a number.
Malformed(raw) == raw \in {Absent, "", "abc"}

\* C12: a page or perPage value that is missing, empty or not a number is
\* replaced by page 1 and perPage 12 and the request is answered with 200.
C12_MalformedNumbersDefault ==
    (resp # NoResponse /\ (Malformed(resp.query.page) \/ Malformed(resp.query.perPage))) =>
        /\ resp.status = 200
        /\ Malformed(resp.query.page) =>
              /\ Pagination.page = 2 * 1
              /\ resp.body.articles =
                    HandlerResponse(resp.all, [resp.query EXCEPT !.page = "1"]).body.articles
        /\ Malformed(resp.query.perPage) =>
              /\ Pagination.perPage = 2 * 12
              /\ Len(resp.body.articles) <= 12
              /\ resp.body =
                    HandlerResponse(resp.all, [resp.query EXCEPT !.perPage = "12"]).body

C12_Witness ==
    /\ resp.status = 200
    /\ resp.query.page = "abc" /\ resp.query.perPage = ""
    /\ Pagination.page = 2 /\ Pagination.perPage = 24
    /\ Pagination.total = 25 /\ Pagination.totalPages = 3
    /\ Len(resp.body.articles) = 12

(***************************************************************************)
(* Properties of the aggregate (AggSpec)                                   *)
(***************************************************************************)
\* Where an item stands in the order of fetching: user, source, item.
Position(link) ==
    CHOOSE pos \in (1..3) \X (1..3) \X (1..5) :
        /\ pos[1] \in DOMAIN config.users
        /\ pos[2] \in DOMAIN config.users[pos[1]].sources
        /\ pos[3] \in DOMAIN Web[config.users[pos[1]].sources[pos[2]]].items
        /\ Web[config.users[pos[1]].sources[pos[2]]].items[pos[3]].link = link
FetchedBefore(p, q) ==
    \/ p[1] < q[1]
    \/ p[1] = q[1] /\ p[2] < q[2]
    \/ p[1] = q[1] /\ p[2] = q[2] /\ p[3] < q[3]
TiesKeepFetchOrder(articles) ==
    \A i, j \in DOMAIN articles :
        (i < j /\ articles[i].pubDate = articles[j].pubDate) =>
            FetchedBefore(Position(articles[i].link), Position(articles[j].link))
\* The aggregate of a finished generator run.
GenSorted == gen.pc \in {"writeFeed", "writeUsers"}
\* The aggregate of a finished live fetch.
LiveSorted == resp.status = 200 /\ resp.via = "live"

\* C13: in the sorted aggregate of the generator and of the live-fetch
\* fallback two articles of the same publish timestamp stand in the order
\* in which they were appended: user order, then source order, then item
\* order.
C13_SortIsStable ==
    /\ GenSorted => TiesKeepFetchOrder(gen.allArticles)
    /\ LiveSorted => TiesKeepFetchOrder(resp.all)
    /\ TiesKeepFetchOrder(WrittenArticles)

C13_Witness ==
    /\ GenSorted
    /\ \E i \in DOMAIN gen.allArticles :
          /\ i + 2 \in DOMAIN gen.allArticles
          /\ gen.allArticles[i].link = "a1/1"
          /\ gen.allArticles[i + 1].link = "a2/3"
          /\ gen.allArticles[i + 2].link = "b1/1"
    /\ \E i \in DOMAIN gen.allArticles :
          /\ i + 1 \in DOMAIN gen.allArticles
          /\ gen.allArticles[i].link = "b1/3"
          /\ gen.allArticles[i + 1].link = "b1/4"

C13_WitnessLive ==
    /\ LiveSorted
    /\ \E i \in DOMAIN resp.all :
          /\ i + 2 \in DOMAIN resp.all
          /\ resp.all[i].link = "a1/1"
          /\ resp.all[i + 1].link = "a2/3"
          /\ resp.all[i + 2].link = "b1/1"

(***************************************************************************)
(* Order of the collections (Spec)                                         *)
(***************************************************************************)
\* Calendar order of two publish dates <<year, month, day, hour>>.
Earlier(p, q) ==
    \E k \in 1..4 : p[k] < q[k] /\ \A n \in 1..(k - 1) : p[n] = q[n]
NewestFirst(articles) ==
    \A i, j \in DOMAIN articles :
        i < j => ~Earlier(articles[i].pubDate, articles[j].pubDate)

\* C14: every collection getAllArticles returns, from the in-memory entry,
\* from the snapshot or from the live fetch, is ordered by publish
\* timestamp descending, and so is every snapshot that is written.
C14_CollectionsNewestFirst ==
    /\ resp.status = 200 => NewestFirst(resp.all)
    /\ ~cachedArticles.isNull => NewestFirst(cachedArticles.items)
    /\ NewestFirst(WrittenArticles)

C14_Witness ==
    /\ resp.status = 200 /\ resp.via = "cache"
    /\ Len(resp.all) >= 5
    /\ \E i \in DOMAIN resp.all : Earlier(resp.all[i].pubDate, resp.all[1].pubDate)
    /\ \E i \in DOMAIN resp.all : "isDuringEmployment" \in DOMAIN resp.all[i]

C14_WitnessLive ==
    /\ resp.status = 200 /\ resp.via = "live"
    /\ Len(resp.all) = 4
    /\ resp.all[1].link = "b1/5" /\ resp.all[2].link = "a1/1"

\* An article carries a publish date.
Dated(a) == "pubDate" \in DOMAIN a /\ a.pubDate # <<>>
AllDated(articles) == \A i \in DOMAIN articles : Dated(articles[i])
\* The links of the items of a feed that have no publish date.
UndatedLinks(url) ==
    {Web[url].items[i].link :
        i \in {j \in DOMAIN Web[url].items : ~Dated(Web[url].items[j])}}
FetchedUrls(outcomes) == {outcomes[i].url : i \in {j \in DOMAIN outcomes : outcomes[j].ok}}

\* C15: every article of the generator and of the live-fetch fallback has a
\* publish date; a feed with undated items is fetched without an error and
\* loses only those items; the generator includes every dated item of a
\* fetched feed whatever the author's tenure window.
C15_UndatedItemsDropped ==
    /\ GenSorted =>
          /\ AllDated(gen.allArticles)
          /\ \A url \in FetchedUrls(gen.outcomes) :
                /\ UndatedLinks(url) \cap LinksIn(gen.allArticles) = {}
                /\ (AllLinks(url) \ UndatedLinks(url)) \subseteq LinksIn(gen.allArticles)
    /\ LiveSorted =>
          /\ AllDated(resp.all)
          /\ \A url \in FetchedUrls(resp.outcomes) :
                UndatedLinks(url) \cap LinksIn(resp.all) = {}
    /\ AllDated(WrittenArticles)

C15_Witness ==
    /\ gen.pc = "writeUsers"
    /\ {"a1", "b1"} \subseteq FetchedUrls(gen.outcomes)
    /\ {"a1/3", "b1/3"} \subseteq LinksIn(WrittenArticles)
    /\ {"a1/2", "b1/2"} \cap LinksIn(WrittenArticles) = {}

C15_WitnessLive ==
    /\ LiveSorted
    /\ {"a1", "b1"} \subseteq FetchedUrls(resp.outcomes)
    /\ "a1/1" \in LinksIn(resp.all) /\ "a1/2" \notin LinksIn(resp.all)

(***************************************************************************)
(* Properties of fetchFeedWithRetry (GenSpec)                              *)
(***************************************************************************)
\* The fetches of the user the generator is working on, and all the
\* sources it has finished with.
FetchesOf(g) == IF g.pc = "fetching" THEN g.fetches ELSE <<>>
OutcomesOf(g) == IF "outcomes" \in DOMAIN g THEN g.outcomes ELSE <<>>
AttemptsAtMost(g, n) ==
    /\ \A i \in DOMAIN FetchesOf(g) : FetchesOf(g)[i].attempts <= n
    /\ \A i \in DOMAIN OutcomesOf(g) : OutcomesOf(g)[i].attempts <= n
\* What is left to do for one source: the retries and the pending attempt.
Remaining(f) ==
    IF f.state = "done" THEN 0
    ELSE 2 * f.retries + (IF f.state = "inflight" THEN 2 ELSE 1)

\* C16 as stated: at most 3 fetch attempts in total for one source.
C16_AtMostThreeAttempts == AttemptsAtMost(gen, 3)

\* C16 as amended: at most 4 fetch attempts in total for one source (the
\* first and up to 3 retries); the feed of the first successful attempt is
\* returned and the source is not fetched again; a further attempt is made
\* only after the delay; after the fourth failure the source is given up
\* and contributes nothing; every step of the retry loop brings it nearer
\* to its end.
C16_RetryBounded ==
    [][/\ AttemptsAtMost(gen', 4)
       /\ \A i \in DOMAIN FetchesOf(gen') :
             LET f == FetchesOf(gen')[i]
             IN  /\ f.attempts >= 1
                 /\ f.state = "delay" => f.attempts < 4
                 /\ (f.state = "done" /\ ~f.ok) => (f.attempts = 4 /\ f.result = <<>>)
       /\ \A i \in DOMAIN OutcomesOf(gen') :
             LET o == OutcomesOf(gen')[i]
             IN  ~o.ok => /\ o.attempts = 4
                          /\ AllLinks(o.url) \cap LinksIn(gen'.allArticles) = {}
       /\ (gen.pc = "fetching" /\ gen'.pc = "fetching" /\ gen'.ui = gen.ui) =>
             \A i \in DOMAIN gen.fetches :
                LET f == gen.fetches[i]
                    g == gen'.fetches[i]
                IN  /\ f.state = "done" => g = f
                    /\ g.attempts # f.attempts =>
                          /\ f.state = "delay" /\ g.state = "inflight"
                          /\ g.attempts = f.attempts + 1
                    /\ g # f => Remaining(g) < Remaining(f)]_vars

C16_Witness ==
    /\ GenSorted
    /\ \E i, j \in DOMAIN gen.outcomes :
          /\ ~gen.outcomes[i].ok /\ gen.outcomes[i].attempts = 4
          /\ gen.outcomes[j].ok /\ gen.outcomes[j].attempts = 3
          /\ AllLinks(gen.outcomes[i].url) \cap LinksIn(gen.allArticles) = {}
          /\ DatedLinks(gen.outcomes[j].url) \subseteq LinksIn(gen.allArticles)

(***************************************************************************)
(* No failure crashes the articles endpoint (FaultSpec)                    *)
(***************************************************************************)
\* A step of a request: its entry or the settling of an awaited fetch.
RequestStep == EntryStep \/ calls' # calls
\* The request of the step is answered in this step.
AnsweredNow == calls'[lastOp'.call].pc = "idle"

\* C17: getAllArticles never lets an exception out: a failure of the whole
\* aggregation yields the empty collection, answered with 200, and leaves
\* the in-memory entry as it was; a request is either still waiting for a
\* feed, with no response sent, or ends with one response, which is 200
\* with articles and pagination or 500 with an error descriptor only.
C17_NoFailureCrashes ==
    [][RequestStep =>
          /\ lastOp'.path \in {"cache", "snapshot", "fetching", "live", "error"}
          /\ ~AnsweredNow => (lastOp'.path = "fetching" /\ resp' = resp)
          /\ AnsweredNow =>
                /\ lastOp'.path # "fetching"
                /\ resp'.status \in {200, 500}
                /\ resp'.status = 200 =>
                      DOMAIN resp'.body = {"articles", "pagination"}
                /\ resp'.status = 500 => DOMAIN resp'.body = {"error"}
          /\ lastOp'.path = "error" =>
                /\ resp'.all = <<>>
                /\ resp'.status = 200 /\ resp'.body.articles = <<>>
                /\ resp'.body.pagination.total = 0
                /\ cachedArticles' = cachedArticles /\ cacheTime' = cacheTime
                /\ feedFile' = feedFile]_vars

\* An unreadable config after the entry has expired: the answer is empty
\* and the old entry is still there.
C17_Witness ==
    /\ lastOp.path = "error" /\ "readConfig" \in lastOp.io
    /\ resp.status = 200 /\ resp.all = <<>>
    /\ ~cachedArticles.isNull /\ cachedArticles.items # <<>>
    /\ now - cacheTime >= CACHE_DURATION

C17_WitnessError ==
    /\ resp.status = 500 /\ resp.query.tag = "go"
    /\ DOMAIN resp.body = {"error"}

(***************************************************************************)
(* The end month of the tenure window (GenSpec)                            *)
(***************************************************************************)
RecordedEnd(user) == "left_at" \in DOMAIN user /\ user.left_at # [null |-> TRUE]
InEndMonth(p, user) == p[1] = user.left_at.year /\ p[2] = user.left_at.month
AfterEndMonth(p, user) ==
    \/ p[1] > user.left_at.year
    \/ p[1] = user.left_at.year /\ p[2] > user.left_at.month

\* C18: for an author with a recorded tenure end an article published at
\* any instant within the end month is flagged isDuringEmployment and an
\* article published in a later month is not.
C18_EndMonthInclusive ==
    \A i \in DOMAIN WrittenArticles :
        LET a == WrittenArticles[i]
            user == AuthorOf(a)
        IN  RecordedEnd(user) =>
                /\ (InEndMonth(a.pubDate, user) /\ NotBeforeStart(a.pubDate, user)) =>
                      a.isDuringEmployment
                /\ AfterEndMonth(a.pubDate, user) => ~a.isDuringEmployment

(***************************************************************************)
(* The in-memory entry is invalidated by age alone (Spec)                  *)
(***************************************************************************)
EntryAge == now - cacheTime
EntryUntouched == cachedArticles' = cachedArticles /\ cacheTime' = cacheTime
\* A step of the generator that rewrites the snapshot.
SnapshotRewritten == feedFile' # feedFile /\ lastOp'.path = "none"

\* C19: a call made while the entry is younger than 10 minutes returns the
\* entry whatever the snapshot on disk has become; rewriting the snapshot
\* and the passing of time leave the entry alone; the first call made once
\* the entry is 10 minutes old returns the valid snapshot that is on disk
\* then.
C19_EntryInvalidatedByAgeOnly ==
    [][/\ (EntryStep /\ ~cachedArticles.isNull /\ EntryAge < 600000) =>
             /\ resp'.all = cachedArticles.items
             /\ EntryUntouched
       /\ SnapshotRewritten => EntryUntouched
       /\ now' # now => EntryUntouched
       /\ (EntryStep /\ ~cachedArticles.isNull /\ EntryAge >= 600000
             /\ UsableSnapshot) =>
             /\ resp'.all = feedFile.data.articles
             /\ cachedArticles' = [isNull |-> FALSE, items |-> feedFile.data.articles]
             /\ cacheTime' = now]_vars

\* The entry of a live fetch is served although the generator has written
\* a snapshot with an article the entry does not have.
C19_Witness ==
    /\ lastOp.path = "cache" /\ resp.via = "cache"
    /\ EntryAge < 600000 /\ now > 0
    /\ UsableSnapshot
    /\ "a1/3" \in LinksIn(feedFile.data.articles)
    /\ "a1/3" \notin LinksIn(resp.all)

\* The entry has expired and the rewritten snapshot is served.
C19_WitnessExpired ==
    /\ lastOp.path = "snapshot" /\ resp.via = "snapshot"
    /\ now = 600000 /\ cacheTime = 600000
    /\ "a1/3" \in LinksIn(resp.all)
    /\ cachedArticles.items = resp.all

(***************************************************************************)
(* The fallback against the generator (AggSpec)                            *)
(***************************************************************************)
\* C20: with no source shared between users the live-fetch fallback builds,
\* from the same config and the same feed responses, the aggregate the
\* generator builds: the same articles in the same order, those outside
\* the tenure window included, each with the generator's flag.
C20_FallbackEqualsGenerator ==
    LiveSorted => resp.all = GenOutput(config, FetchedUrls(resp.outcomes))

(***************************************************************************)
(* Properties of the generator on repeated source URLs (DupSpec)           *)
(***************************************************************************)
\* How often a URL stands among the fetches launched so far in the run.
TimesFetched(g, url) ==
    Cardinality({i \in DOMAIN OutcomesOf(g) : OutcomesOf(g)[i].url = url})
    + Cardinality({i \in DOMAIN FetchesOf(g) : FetchesOf(g)[i].url = url})
\* How often an item stands in an aggregate.
TimesListed(articles, link) ==
    Cardinality({i \in DOMAIN articles : articles[i].link = link})
DeclaredUrls == SourceUrls(config, 1) \ {""}

\* C21: in one generation run every distinct non-empty source URL is
\* fetched and processed at most once, whether it is repeated across users
\* or within one user's list, so no item of a feed stands twice in the
\* aggregate.
C21_EachUrlProcessedOnce ==
    /\ \A url \in DeclaredUrls : TimesFetched(gen, url) <= 1
    /\ GenSorted =>
          \A url \in DeclaredUrls : \A link \in AllLinks(url) :
              TimesListed(gen.allArticles, link) <= 1

\* A URL that an earlier user declared is not fetched again for a later
\* user.
AcrossUsersOnce ==
    config # ConfigRepeated =>
        /\ \A url \in DeclaredUrls : TimesFetched(gen, url) <= 1
        /\ GenSorted =>
              \A url \in DeclaredUrls : \A link \in AllLinks(url) :
                  TimesListed(gen.allArticles, link) <= 1

\* The users that declare a URL, and the first of them in config order.
Declarers(url) ==
    {ui \in DOMAIN config.users :
        \E si \in DOMAIN config.users[ui].sources :
            config.users[ui].sources[si] = url}
FirstDeclarer(url) ==
    config.users[CHOOSE ui \in Declarers(url) : \A uj \in Declarers(url) : ui <= uj]
SharedUrls == {url \in DeclaredUrls : Cardinality(Declarers(url)) > 1}
SourceOf(link) == CHOOSE url \in DeclaredUrls : link \in AllLinks(url)
GivenUp(g, url) ==
    /\ \E i \in DOMAIN g.outcomes : g.outcomes[i].url = url
    /\ \A i \in DOMAIN g.outcomes : g.outcomes[i].url = url => ~g.outcomes[i].ok

\* C29: when several users declare the same source URL, every article of
\* that feed in the generator's aggregate carries the author, avatar, tags
\* and employment flag of the first of those users in config order; the
\* later users receive no article from it, and when the first user's fetch
\* of it failed the aggregate has no article of that feed at all.
C29_SharedUrlGoesToFirstUser ==
    GenSorted =>
        /\ \A i \in DOMAIN gen.allArticles :
              LET a == gen.allArticles[i]
                  user == FirstDeclarer(SourceOf(a.link))
              IN  /\ a.author = user.name
                  /\ a.authorAvatar = user.avatar
                  /\ a.tags = user.tags
                  /\ a.isDuringEmployment <=>
                        (NotBeforeStart(a.pubDate, user) /\ NotAfterEnd(a.pubDate, user))
        /\ \A url \in SharedUrls :
              /\ TimesFetched(gen, url) = 1
              /\ GivenUp(gen, url) => AllLinks(url) \cap LinksIn(gen.allArticles) = {}

\* alice and bob both declare a1: its articles are alice's, the one of
\* 2021-07-01 is not flagged although bob is still employed then, and bob
\* has the articles of his own feed.
C29_Witness ==
    /\ config = ConfigShared
    /\ GenSorted
    /\ \E i, j \in DOMAIN gen.allArticles :
          /\ gen.allArticles[i].link = "a1/3"
          /\ gen.allArticles[i].author = "alice"
          /\ ~gen.allArticles[i].isDuringEmployment
          /\ gen.allArticles[j].link = "b1/1"
          /\ gen.allArticles[j].author = "bob"

\* The first user's fetch of the shared URL failed on every attempt: bob,
\* the later user, still gets nothing from a1.
C29_WitnessGivenUp ==
    /\ config = ConfigShared
    /\ GenSorted
    /\ GivenUp(gen, "a1")
    /\ \E j \in DOMAIN gen.allArticles : gen.allArticles[j].author = "bob"
    /\ AllLinks("a1") \cap LinksIn(gen.allArticles) = {}

(***************************************************************************)
(* Properties of overlapping calls of getAllArticles (RaceSpec)            *)
(***************************************************************************)
InFlight(c) == calls[c].pc = "parseURL"
AllReturned == \A c \in DOMAIN calls : calls[c].pc = "idle"
SnapshotOf(articles) == JsonFile([articles |-> ToJson(articles)])

\* C22: refreshes are not mutually excluded. A call that finds no fresh
\* entry and no valid snapshot can enter the live fetch whether or not
\* another call is inside it; each live fetch that finishes overwrites the
\* entry, and the snapshot when its save succeeds, with its own result; so
\* once both calls have returned, the entry and the file hold the result of
\* the call that wrote last.
C22_RefreshesNotExcluded ==
    /\ \A c \in DOMAIN calls :
          (calls[c].pc = "idle" /\ StaleOrNoEntry /\ ~UsableSnapshot) =>
              ENABLED RaceStart(c)
    /\ lastOp.path = "live" =>
          /\ cachedArticles = ArrayCache(resp.all)
          /\ cacheTime <= now
          /\ "writeFile" \in lastOp.io => feedFile = SnapshotOf(resp.all)
    /\ (AllReturned /\ resp.status = 200 /\ resp.via = "live") =>
          cachedArticles = ArrayCache(resp.all)

\* Both calls entered the live fetch; the first has returned and has
\* written a valid snapshot while the second is still fetching, with
\* another result in the making.
C22_Witness ==
    /\ lastOp.path = "live" /\ lastOp.call = 1 /\ "writeFile" \in lastOp.io
    /\ UsableSnapshot
    /\ InFlight(2)
    /\ calls[2].ui = 2
    /\ \E i \in DOMAIN calls[2].outcomes : ~calls[2].outcomes[i].ok
    /\ \A i \in DOMAIN resp.outcomes : resp.outcomes[i].ok

\* The second call has finished last and its result has replaced the one
\* of the first in the entry and in the file.
C22_WitnessLastWriter ==
    /\ lastOp.path = "live" /\ lastOp.call = 2 /\ "writeFile" \in lastOp.io
    /\ ~("readConfig" \in lastOp.io)
    /\ AllReturned
    /\ \E i \in DOMAIN resp.outcomes : ~resp.outcomes[i].ok
    /\ resp.all # <<>>
    /\ feedFile = SnapshotOf(resp.all)
    /\ cachedArticles = ArrayCache(resp.all)

\* C26: the timestamp of the in-memory entry never moves backwards under
\* any interleaving of overlapping calls: every write of the entry sets
\* cacheTime to a value not below the previous one, so that an entry is
\* never taken for fresh for longer than 10 minutes after its content was
\* produced.
C26_EntryTimeNeverMovesBack ==
    [][cacheTime' >= cacheTime]_vars

(***************************************************************************)
(* The order of the generator's fetches (GenSpec)                          *)
(***************************************************************************)
Unsettled(fetches) == {i \in DOMAIN fetches : fetches[i].state # "done"}
JustLaunched(fetches) ==
    \A i \in DOMAIN fetches :
        fetches[i].state = "inflight" /\ fetches[i].attempts = 1
UrlsOf(fetches) == [i \in DOMAIN fetches |-> fetches[i].url]
\* The step starts the fetches of a user.
UserStarts ==
    /\ gen'.pc = "fetching"
    /\ gen.pc = "fetching" => gen'.ui # gen.ui
\* The step leaves the fetches of a user behind.
UserEnds ==
    /\ gen.pc = "fetching"
    /\ gen'.pc = "fetching" => gen'.ui # gen.ui

\* C23: the generator processes the users strictly one after another. The
\* fetches of all eligible sources of a user start together in one step,
\* and no fetch of a later user starts, nor is the aggregate sorted, before
\* every fetch of the current user, retries included, has settled; while a
\* user is being processed no fetch is added.
C23_UsersOneAfterAnother ==
    [][/\ UserStarts =>
             /\ JustLaunched(gen'.fetches)
             /\ gen'.fetches # <<>>
             /\ \E seen \in SUBSET SourceUrls(config, 1) :
                   UrlsOf(gen'.fetches) =
                       EligibleSources(config.users[gen'.ui], seen)
             /\ gen.pc = "fetching" => gen'.ui > gen.ui
       /\ UserEnds =>
             /\ Cardinality(Unsettled(gen.fetches)) = 1
             /\ \A i \in Unsettled(gen.fetches) : gen.fetches[i].state = "inflight"
             /\ gen'.pc \in {"fetching", "writeFeed"}
             /\ Len(gen'.outcomes) = Len(gen.outcomes) + Len(gen.fetches)
       /\ (gen.pc = "fetching" /\ ~UserEnds) =>
             /\ UrlsOf(gen'.fetches) = UrlsOf(gen.fetches)
             /\ gen'.outcomes = gen.outcomes
             /\ gen'.allArticles = gen.allArticles]_vars

\* bob's fetch has just started, after both fetches of alice have settled,
\* one of them at its fourth attempt.
C23_Witness ==
    /\ gen.pc = "fetching"
    /\ gen.ui = 2
    /\ JustLaunched(gen.fetches)
    /\ Len(gen.outcomes) = 2
    /\ \E i \in DOMAIN gen.outcomes :
          gen.outcomes[i].attempts = 4 /\ ~gen.outcomes[i].ok
    /\ \E i \in DOMAIN gen.outcomes : gen.outcomes[i].ok

(***************************************************************************)
(* The page size the handler works with (PageSpec)                         *)
(***************************************************************************)
\* C27: for every numeric page and perPage, negative and fractional ones
\* included, the handler reports a perPage that is an integer of at least
\* 1, returns at most perPage articles, and the articles returned are a
\* slice of the filtered collection that starts at a multiple of perPage.
C27_PerPageNormalized ==
    Answered =>
        LET filtered == FilterArticles(resp.all, Params)
            per == Pagination.perPage \div 2
        IN  /\ Pagination.perPage % 2 = 0
            /\ Pagination.perPage >= 2 * 1
            /\ Len(resp.body.articles) <= per
            /\ \E k \in 0..Len(filtered) :
                  resp.body.articles =
                      SubSeq(filtered, k * per + 1,
                             Min((k + 1) * per, Len(filtered)))

\* The same for the requests whose page and perPage are missing, malformed,
\* zero or integers, perPage a positive one.
PerPageWellFormed ==
    (Answered /\ IntegerPerPage /\ IntegerPage) =>
        LET filtered == FilterArticles(resp.all, Params)
            per == Pagination.perPage \div 2
        IN  /\ Pagination.perPage = Params.perPage
            /\ Len(resp.body.articles) <= per
            /\ \E k \in 0..Len(filtered) :
                  resp.body.articles =
                      SubSeq(filtered, k * per + 1,
                             Min((k + 1) * per, Len(filtered)))

(***************************************************************************)
(* The live fetch and the snapshot it leaves behind (RaceSpec)             *)
(***************************************************************************)
FetchesNothing ==
    /\ lastOp'.path \in {"cache", "snapshot"}
    /\ lastOp'.io \subseteq {"existsSync", "readFile"}
    /\ calls' = calls
    /\ feedFile' = feedFile

\* C28: the live fetch runs only when no valid snapshot exists. A live
\* fetch that ends with a non-empty result and a successful save leaves a
\* valid snapshot of that result; a call that begins while a valid
\* snapshot is in place performs no network fetch, reads no config and
\* writes nothing; and every such call that finds the entry missing or
\* expired is served by re-reading the snapshot.
C28_LiveFetchOnlyWithoutSnapshot ==
    [][/\ (LiveFinishStep /\ "writeFile" \in lastOp'.io /\ resp'.all # <<>>) =>
             /\ SnapshotValid(feedFile')
             /\ feedFile'.data.articles = ToJson(resp'.all)
       /\ (EntryStep /\ UsableSnapshot) =>
             /\ FetchesNothing
             /\ StaleOrNoEntry =>
                   /\ lastOp'.path = "snapshot"
                   /\ resp'.all = feedFile.data.articles
                   /\ cachedArticles' = ArrayCache(feedFile.data.articles)
       /\ (EntryStep /\ lastOp'.path \in {"fetching", "live", "error"}) =>
             ~UsableSnapshot]_vars

\* A cache expiry served from the snapshot that an earlier live fetch has
\* written: its articles lack the employment flag only the generator sets.
C28_Witness ==
    /\ lastOp.path = "snapshot"
    /\ now = CACHE_DURATION
    /\ cacheTime = now
    /\ resp.all # <<>>
    /\ \A i \in DOMAIN resp.all : ~Has(resp.all[i], "isDuringEmployment")
    /\ feedFile = JsonFile([articles |-> resp.all])

(***************************************************************************)
(* The aggregate and the order in which fetches complete (GenSpec)         *)
(***************************************************************************)
IndexOf(articles, link) == CHOOSE i \in DOMAIN articles : articles[i].link = link

\* C30: the generator's aggregate does not depend on the order in which a
\* user's concurrently launched fetches complete, nor on retries: for a
\* fixed config and fixed feed contents (which sources can be fetched at
\* all) every interleaving ends with the same sequence of articles, the one
\* of a run that takes the sources one by one in config order.
C30_AggregateIndependentOfCompletionOrder ==
    /\ GenSorted =>
          gen.allArticles = GenOutput(config, FetchedUrls(gen.outcomes))
    /\ gen.pc = "fetching" =>
          gen.allArticles = GenCollect([users |-> SubSeq(config.users, 1, gen.ui - 1)],
                                       1, {}, FetchedUrls(gen.outcomes))

\* Both feeds of alice were fetched, a1 only at its third attempt and so
\* after a2 could complete; the items a1/1 and a2/3 of the same date stand
\* in config order.
C30_Witness ==
    /\ GenSorted
    /\ \E i, j \in DOMAIN gen.outcomes :
          /\ gen.outcomes[i].url = "a1" /\ gen.outcomes[i].ok
          /\ gen.outcomes[i].attempts = 3
          /\ gen.outcomes[j].url = "a2" /\ gen.outcomes[j].ok
          /\ gen.outcomes[j].attempts = 1
    /\ IndexOf(gen.allArticles, "a1/1") < IndexOf(gen.allArticles, "a2/3")

(***************************************************************************)
(* Properties of the timeline pages (ClientSpec)                           *)
(***************************************************************************)
\* The server's collection under the filters of the page.
Filtered(t) ==
    FilterArticles(ServerArticles,
                   ParseQuery(TimelineQuery(t.kind, 1, t.showOnlyDuringEmployment)))
\* The pages 1..k of a collection, each once and in order.
PagesUpTo(articles, k) == SubSeq(articles, 1, Min(12 * k, Len(articles)))

\* C24: on a timeline page, after any sequence of successful and failed
\* load-more requests against an unchanged server collection, the list
\* displayed is a prefix of the server's filtered collection made of the
\* pages 1..k in order, each appended exactly once; a failed load of page n
\* never makes a page already displayed be fetched and appended again.
C24_DisplayedListIsPrefixOfPages ==
    (timeline.kind # "none" /\ timeline.toggles = 0) =>
        \E k \in 0..Len(Filtered(timeline)) :
            timeline.articles = PagesUpTo(Filtered(timeline), k)

\* C25: on the user page, once the employment-only switch has been clicked
\* and every request in flight has settled, in whatever order, the list
\* displayed is exactly page 1 of the collection filtered with the new
\* value: no response of a load-more request for a later page is appended.
C25_ToggleShowsFirstPage ==
    (/\ timeline.kind = "user"
     /\ timeline.toggles > 0 /\ ~timeline.scrolled
     /\ timeline.requests = <<>> /\ timeline.failures = 0) =>
        timeline.articles = PagesUpTo(Filtered(timeline), 1)

====
